---- MODULE Spec2Model ----
(***************************************************************************)
(* Model of the scheduled sales-report script (main.py): the loader, the  *)
(* joiner, the partitioner, the indicator engine, the archiver and the    *)
(* notifier, run once by main() over bounded input tables.                *)
(*                                                                         *)
(* A DataFrame is a record [none, cols, rows]: `none` stands for Python's  *)
(* None, `cols` is the set of column labels, `rows` the sequence of rows.  *)
(* A cell of the Date column is [kind, date]: kind "dt" is a date cell,    *)
(* "text" a date written as text (pd.to_datetime parses it), "bad" a text  *)
(* that is no date (errors='coerce' turns it into NaT) and "nat" is NaT.   *)
(* A missing Sale Code is the value "nan".                                 *)
(***************************************************************************)
EXTENDS Integers, Sequences, FiniteSets, TLC

\* Largest number of rows of the sales spreadsheet.
MaxRows == 3
\* Largest number of invocations of the script over the same backup tree.
MaxRuns == 2
\* Largest sales table of a run that another run is explored after.
MaxRowsBefore == 1

BACKUP == "Backup Arquivos Lojas"

--------------------------------------------------------------------------
(* Generic helpers over sequences *)

Range(s) == {s[i] : i \in 1..Len(s)}

RECURSIVE SeqSum(_)
\* Series.sum() of a numeric column given as a sequence of integers
SeqSum(s) == IF s = <<>> THEN 0 ELSE Head(s) + SeqSum(Tail(s))

RECURSIVE Unique(_)
\* Series.unique(): the distinct values in order of first appearance
Unique(s) ==
    IF s = <<>> THEN <<>>
    ELSE LET r == Unique(SubSeq(s, 1, Len(s) - 1))
             x == s[Len(s)]
         IN IF x \in Range(r) THEN r ELSE Append(r, x)

Column(rows, c) == [i \in 1..Len(rows) |-> rows[i][c]]

--------------------------------------------------------------------------
(* Values *)

NoneDF == [none |-> TRUE, cols |-> {}, rows |-> <<>>]
DF(cols, rows) == [none |-> FALSE, cols |-> cols, rows |-> rows]
\* DataFrame.empty: one of the axes has length 0
Empty(df) == df.rows = <<>> \/ df.cols = {}

NoDate == [none |-> TRUE, y |-> 0, m |-> 0, d |-> 0]
Date(y, m, d) == [none |-> FALSE, y |-> y, m |-> m, d |-> d]
DateLess(a, b) ==
    \/ a.y < b.y
    \/ a.y = b.y /\ a.m < b.m
    \/ a.y = b.y /\ a.m = b.m /\ a.d < b.d

Cell(kind, date) == [kind |-> kind, date |-> date]
NaT == Cell("nat", NoDate)

\* elementwise `cell == dia_indicador` of a Date column: a date cell equals the
\* Timestamp of the same date; a text cell, NaT and a None operand never do
CellEq(cell, dia) == cell.kind = "dt" /\ ~dia.none /\ cell.date = dia

\* A number: an int or the float of an exact quotient
Num(n) == [num |-> n, den |-> 1]
NumGE(a, b) == a.num * b.den >= b.num * a.den

--------------------------------------------------------------------------
(* Inputs: the three files and the environment of one run *)

Day1 == Date(2023, 12, 30)
Day2 == Date(2023, 12, 31)

\* Total Value of a row selling one unit of the product
Price(p) == IF p = "p1" THEN 30 ELSE 1000

SalesRow(date, id, sale, prod) ==
    [Date |-> date, StoreID |-> id, SaleCode |-> sale, Product |-> prod,
     TotalValue |-> Price(prod)]

RowChoices ==
    {SalesRow(Cell("dt", dt), id, sale, prod) :
        dt \in {Day1, Day2}, id \in {"id1", "id2"},
        sale \in {"s1", "s2"}, prod \in {"p1", "p2"}}
    \cup {SalesRow(Cell("dt", Day2), id, "nan", "p1") : id \in {"id1", "id2"}}
    \cup {SalesRow(Cell("text", Day2), id, "s1", "p2") : id \in {"id1", "id2"}}
    \cup {SalesRow(Cell("bad", NoDate), id, "s1", "p1") : id \in {"id1", "id2"}}
    \cup {SalesRow(Cell("dt", Day2), "id3", "s1", "p1")}

RECURSIVE SetToSeq(_)
SetToSeq(S) ==
    IF S = {} THEN <<>>
    ELSE LET x == CHOOSE x \in S : TRUE IN <<x>> \o SetToSeq(S \ {x})

RowList == SetToSeq(RowChoices)

RECURSIVE RowTables(_, _)
\* the tables of n rows, each row by its place in RowList, up to the order of
\* the rows (no stage reads it)
RowTables(n, lo) ==
    IF n = 0 THEN {<<>>}
    ELSE UNION {{<<i>> \o t : t \in RowTables(n - 1, i)} : i \in lo..Len(RowList)}

RowsAt(t) == [i \in 1..Len(t) |-> RowList[t[i]]]

ALL_SALES_COLS == {"Date", "Store ID", "Sale Code", "Product", "Total Value"}

StoreRow(id, name) == [StoreID |-> id, Store |-> name]
StoresFile == DF({"Store ID", "Store"}, <<StoreRow("id1", "A"), StoreRow("id2", "B")>>)
\* a Stores.csv in which the line of store A is there twice
StoresFileRepetida ==
    DF({"Store ID", "Store"}, <<StoreRow("id1", "A"), StoreRow("id1", "A"), StoreRow("id2", "B")>>)

EmailRow(store, manager, email) == [Store |-> store, Manager |-> manager, Email |-> email]
RowA == EmailRow("A", "Ana", "a@x")
RowB == EmailRow("B", "Bia", "b@x")
RowCEO == EmailRow("CEO", "Dir", "ceo@x")
\* what the platform gives the run: whether the three input files can be read
\* ("repetida": they can, and Stores.csv has a line twice),
\* the sales columns missing from the file, whether win32 Dispatch yields an
\* application object, and the disk ("fail": to_excel raises; "readonly":
\* mkdir and to_excel raise)
Env(arquivos, drop, outlook, disk) ==
    [arquivos |-> arquivos, drop |-> drop, outlook |-> outlook, disk |-> disk]

Scenario(rows, roster, env) == [rows |-> rows, roster |-> roster, env |-> env]

\* every table of up to MaxRows rows with complete files, a full roster and a
\* working platform; the other environments with tables one row shorter
Scenarios ==
    {Scenario(t, <<RowA, RowB, RowCEO>>, Env("ok", {}, "app", "ok")) :
        t \in UNION {RowTables(n, 1) : n \in 0..MaxRows}}
    \cup {Scenario(t, r, e) :
            t \in UNION {RowTables(n, 1) : n \in 0..(MaxRows - 1)},
            r \in {<<RowA, RowB, RowCEO>>},
            e \in {Env("ok", {"Sale Code"}, "app", "ok"),
                   Env("ok", {"Total Value"}, "app", "ok"),
                   Env("ok", {}, "None", "ok"),
                   Env("ok", {}, "app", "fail"),
                   Env("ok", {}, "app", "readonly")}}
    \cup {Scenario(t, <<RowA, RowCEO>>, Env("ok", {}, "app", "ok")) :
            t \in UNION {RowTables(n, 1) : n \in 0..(MaxRows - 1)}}
    \cup {Scenario(t, <<RowA, RowB>>, Env("ok", {}, "app", "ok")) :
            t \in UNION {RowTables(n, 1) : n \in 0..(MaxRows - 1)}}
    \cup {Scenario(<<>>, <<RowA, RowB, RowCEO>>, Env("missing", {}, "app", "ok"))}
    \cup {Scenario(t, <<RowA, RowB, RowCEO>>, Env("repetida", {}, "app", "ok")) :
            t \in UNION {RowTables(n, 1) : n \in 0..(MaxRows - 1)}}

\* the inputs of a later run: the day's table again, the same day with other
\* sales, another day, the day's table on a disk that refuses the writes, and
\* an input file that is not there
Reexecucoes ==
    {Scenario(rows, <<RowA, RowB, RowCEO>>, Env("ok", {}, "app", disk)) :
        rows \in {<<SalesRow(Cell("dt", Day2), "id1", "s1", "p1")>>},
        disk \in {"ok", "fail", "readonly"}}
    \cup {Scenario(rows, <<RowA, RowB, RowCEO>>, Env("ok", {}, "app", "ok")) :
            rows \in {<<SalesRow(Cell("dt", Day2), "id1", "s1", "p2")>>,
                      <<SalesRow(Cell("dt", Day1), "id1", "s1", "p1")>>,
                      <<SalesRow(Cell("dt", Day2), "id1", "s1", "p1"),
                        SalesRow(Cell("dt", Day2), "id2", "s2", "p2")>>}}
    \cup {Scenario(<<>>, <<RowA, RowB, RowCEO>>, Env("missing", {}, "app", "ok"))}

--------------------------------------------------------------------------
(* Loader, Joiner, Partitioner *)

\* variant: the tables read before the failing file are returned
carrega_dfs_parcial(arg, sc) ==
    IF arg # "None"
    THEN [exc |-> "UnboundLocalError", vendas |-> NoneDF, emails |-> NoneDF, lojas |-> NoneDF]
    ELSE [exc |-> "none",
          vendas |-> DF(ALL_SALES_COLS \ sc.env.drop, sc.rows),
          emails |-> DF({"Store", "Manager", "E-mail"}, sc.roster),
          lojas  |-> IF sc.env.arquivos = "missing" THEN NoneDF ELSE StoresFile]

\* variant: the paths of the override are used
carrega_dfs_do_override(arg, sc) ==
    IF sc.env.arquivos = "missing"
    THEN [exc |-> "none", vendas |-> NoneDF, emails |-> NoneDF, lojas |-> NoneDF]
    ELSE [exc |-> "none",
          vendas |-> DF(ALL_SALES_COLS \ sc.env.drop, sc.rows),
          emails |-> DF({"Store", "Manager", "E-mail"}, sc.roster),
          lojas  |-> StoresFile]

\* the three tables as read from disk; a path override leaves `caminhos`
\* unbound, and the loop over it raises
carrega_dfs(arg, sc) ==
    IF arg # "None"
    THEN [exc |-> "UnboundLocalError", vendas |-> NoneDF, emails |-> NoneDF, lojas |-> NoneDF]
    ELSE IF sc.env.arquivos = "missing"
    THEN [exc |-> "none", vendas |-> NoneDF, emails |-> NoneDF, lojas |-> NoneDF]
    ELSE [exc |-> "none",
          vendas |-> DF(ALL_SALES_COLS \ sc.env.drop, sc.rows),
          emails |-> DF({"Store", "Manager", "E-mail"}, sc.roster),
          lojas  |-> IF sc.env.arquivos = "repetida" THEN StoresFileRepetida ELSE StoresFile]

JoinRow(s, st) ==
    [Date |-> s.Date, StoreID |-> s.StoreID, SaleCode |-> s.SaleCode,
     Product |-> s.Product, TotalValue |-> s.TotalValue, Store |-> st.Store]

RECURSIVE InnerJoin(_, _)
\* sales.merge(stores, on='Store ID'): for every sales row, in order, one row
\* per stores row with the same Store ID
InnerJoin(srows, strows) ==
    IF srows = <<>> THEN <<>>
    ELSE LET h == Head(srows)
             m == SelectSeq(strows, LAMBDA st : st.StoreID = h.StoreID)
         IN [i \in 1..Len(m) |-> JoinRow(h, m[i])] \o InnerJoin(Tail(srows), strows)

merge_dfs(sales, stores, coluna_referencia) ==
    IF sales.none \/ stores.none THEN NoneDF
    ELSE IF Empty(sales) \/ Empty(stores) THEN NoneDF
    ELSE IF coluna_referencia \notin sales.cols THEN NoneDF
    ELSE IF coluna_referencia \notin stores.cols THEN NoneDF
    ELSE DF(sales.cols \cup stores.cols, InnerJoin(sales.rows, stores.rows))

Entry(loja, df) == [loja |-> loja, df |-> df]

\* variant: every store is given the whole joined table
cria_tabelas_para_lojas_sem_filtro(stores, sales, coluna_referencia) ==
    IF stores.none \/ sales.none THEN <<>>
    ELSE IF Empty(stores) \/ Empty(sales) THEN <<>>
    ELSE IF coluna_referencia \notin stores.cols THEN <<>>
    ELSE IF coluna_referencia \notin sales.cols THEN <<>>
    ELSE LET nomes == Unique(Column(stores.rows, "Store"))
         IN [i \in 1..Len(nomes) |-> Entry(nomes[i], DF(sales.cols, sales.rows))]

\* the dict as the sequence of its items, in insertion order
cria_tabelas_para_lojas(stores, sales, coluna_referencia) ==
    IF stores.none \/ sales.none THEN <<>>
    ELSE IF Empty(stores) \/ Empty(sales) THEN <<>>
    ELSE IF coluna_referencia \notin stores.cols THEN <<>>
    ELSE IF coluna_referencia \notin sales.cols THEN <<>>
    ELSE LET nomes == Unique(Column(stores.rows, "Store"))
         IN [i \in 1..Len(nomes) |->
                Entry(nomes[i],
                      DF(sales.cols, SelectSeq(sales.rows, LAMBDA r : r.Store = nomes[i])))]

\* pd.to_datetime(cell, errors='coerce')
to_datetime(cell) ==
    IF cell.kind \in {"dt", "text"} THEN Cell("dt", cell.date) ELSE NaT

RECURSIVE MaxDate(_)
\* Series.max() of a datetime column, NaT skipped; NoDate when all are NaT
MaxDate(cells) ==
    IF cells = <<>> THEN NoDate
    ELSE LET rest == MaxDate(Tail(cells))
             c == Head(cells)
         IN IF c.kind # "dt" THEN rest
            ELSE IF rest.none \/ DateLess(rest, c.date) THEN c.date ELSE rest

ConvertDates(rows) ==
    [i \in 1..Len(rows) |-> [rows[i] EXCEPT !.Date = to_datetime(@)]]

\* the day returned and the table as the call leaves it (its Date column is
\* replaced in place)
cria_indicador_dia(sales) ==
    IF sales.none \/ Empty(sales) THEN [dia |-> NoDate, sales |-> sales]
    ELSE IF "Date" \notin sales.cols THEN [dia |-> NoDate, sales |-> sales]
    ELSE LET conv == ConvertDates(sales.rows)
         IN [dia |-> MaxDate(Column(conv, "Date")),
             sales |-> [sales EXCEPT !.rows = conv]]

--------------------------------------------------------------------------
(* Archiver.  The backup tree: whether the root folder exists, the store   *)
(* folders under it, the store spreadsheets and the ranking spreadsheets.  *)

FileName(m, d, label) == [m |-> m, d |-> d, label |-> label]
\* a bare name (a store key used as a folder or file name)
Name(label) == FileName(0, 0, label)

EmptyFS == [root |-> FALSE, folders |-> {}, lojas |-> {}, rankings |-> {}]

\* the path of a file under the backup root: <root>/<folder>/<name>.xlsx, the
\* folder "" for a file directly under the root
Anexo(folder, name) == [folder |-> folder, name |-> name]

LojaFile(folder, name, rows) == [folder |-> folder, name |-> name, rows |-> rows]
RankFile(name, rows) == [name |-> name, rows |-> rows]

\* DataFrame.to_excel(path): creates the file or replaces the one at that path
\* variant: the file is saved directly under the root, not in the store's folder
WriteLoja_na_raiz(fs, f) ==
    [fs EXCEPT !.lojas = {g \in @ : ~(g.folder = "" /\ g.name = f.name)}
                            \cup {[f EXCEPT !.folder = ""]}]

WriteLoja(fs, f) ==
    [fs EXCEPT !.lojas =
        {g \in @ : ~(g.folder = f.folder /\ g.name = f.name)} \cup {f}]
\* variant: a ranking file already under the root blocks the write
WriteRank_so_primeiro(fs, f) ==
    IF fs.rankings = {} THEN [fs EXCEPT !.rankings = {f}] ELSE fs

WriteRank(fs, f) ==
    [fs EXCEPT !.rankings = {g \in @ : g.name # f.name} \cup {f}]

LojaExists(fs, folder, name) ==
    \E g \in fs.lojas : g.folder = folder /\ g.name = name
RankExists(fs, name) == \E g \in fs.rankings : g.name = name

pega_caminho_backup(fs, disk) ==
    IF fs.root THEN [caminho |-> BACKUP, fs |-> fs, log |-> <<>>]
    ELSE IF disk = "readonly"
    THEN [caminho |-> "None", fs |-> fs, log |-> <<"E:pega_caminho_backup">>]
    ELSE [caminho |-> BACKUP, fs |-> [fs EXCEPT !.root = TRUE],
          log |-> <<"I:pega_caminho_backup">>]

\* the names of the files (not of the folders) directly under the root
lista_nomes_doBackup(caminho_backup, fs) ==
    IF caminho_backup = "None" THEN {}
    ELSE IF ~fs.root THEN {}
    ELSE {g.name : g \in fs.rankings}

cria_pastas_para_lojas(dict_lojas, lista_nomes_backup, caminho_backup, fs, disk) ==
    IF caminho_backup = "None" THEN fs
    ELSE IF ~fs.root THEN fs
    ELSE IF disk = "readonly" THEN fs
    ELSE [fs EXCEPT !.folders =
            @ \cup {dict_lojas[i].loja : i \in
                     {j \in 1..Len(dict_lojas) :
                        Name(dict_lojas[j].loja) \notin lista_nomes_backup}}]

\* the stores of dict_lojas whose mkdir is attempted (line 402)
pastas_pedidas(dict_lojas, lista_nomes_backup) ==
    {dict_lojas[j].loja : j \in {i \in 1..Len(dict_lojas) :
                                  Name(dict_lojas[i].loja) \notin lista_nomes_backup}}

\* variant: mkdir without exist_ok, which raises on a folder that exists
pastas_com_erro_sem_exist_ok(dict_lojas, lista_nomes_backup, caminho_backup, fs, disk) ==
    IF caminho_backup = "None" \/ ~fs.root THEN {}
    ELSE {l \in pastas_pedidas(dict_lojas, lista_nomes_backup) :
            l \in fs.folders \/ disk = "readonly"}

\* the stores whose mkdir(parents=True, exist_ok=True) raised (line 408): a
\* folder that is not there on a disk that refuses to create it
pastas_com_erro(dict_lojas, lista_nomes_backup, caminho_backup, fs, disk) ==
    IF caminho_backup = "None" \/ ~fs.root THEN {}
    ELSE {l \in pastas_pedidas(dict_lojas, lista_nomes_backup) :
            l \notin fs.folders /\ disk = "readonly"}

\* the records cria_pastas_para_lojas logs: the error of an unusable path, or
\* one record per mkdir
log_cria_pastas(dict_lojas, lista_nomes_backup, caminho_backup, fs, ruins) ==
    IF caminho_backup = "None" \/ ~fs.root THEN <<"E:cria_pastas_para_lojas">>
    ELSE LET pedidas == SelectSeq(dict_lojas,
                            LAMBDA e : e.loja \in pastas_pedidas(dict_lojas, lista_nomes_backup))
         IN [i \in 1..Len(pedidas) |->
                IF pedidas[i].loja \in ruins THEN "E:cria_pastas_para_lojas"
                ELSE "I:cria_pastas_para_lojas"]

RECURSIVE SalvaLoop(_, _, _, _)
\* the loop of salva_excel_para_cada_loja over dict_lojas.items(); exc is the
\* exception that leaves the function
SalvaLoop(items, dia_indicador, fs, disk) ==
    IF items = <<>> THEN [fs |-> fs, exc |-> "none", log |-> <<>>, escritos |-> {}]
    ELSE IF dia_indicador.none
    THEN \* dia_indicador.month, evaluated before the try
         [fs |-> fs, exc |-> "AttributeError", log |-> <<>>, escritos |-> {}]
    ELSE LET loja == Head(items).loja
             df == Head(items).df
             nome_arquivo == FileName(dia_indicador.m, dia_indicador.d, loja)
             made == [fs EXCEPT !.folders = @ \cup {loja}]
             after == IF Empty(df) THEN fs
                      ELSE IF disk = "readonly" THEN fs
                      ELSE IF disk = "fail" THEN made
                      ELSE WriteLoja(made, LojaFile(loja, nome_arquivo, df.rows))
             msg == IF Empty(df) \/ disk # "ok"
                    THEN "E:salva_excel_para_cada_loja"
                    ELSE "I:salva_excel_para_cada_loja"
             novo == IF Empty(df) \/ disk # "ok" THEN {} ELSE {Anexo(loja, nome_arquivo)}
             rest == SalvaLoop(Tail(items), dia_indicador, after, disk)
         IN [rest EXCEPT !.log = <<msg>> \o @, !.escritos = novo \cup @]

salva_excel_para_cada_loja(dict_lojas, dia_indicador, caminho_backup, fs, disk) ==
    IF caminho_backup = "None"
    THEN [fs |-> fs, exc |-> "none", log |-> <<"E:salva_excel_para_cada_loja">>, escritos |-> {}]
    ELSE IF ~fs.root
    THEN [fs |-> fs, exc |-> "none", log |-> <<"E:salva_excel_para_cada_loja">>, escritos |-> {}]
    ELSE SalvaLoop(dict_lojas, dia_indicador, fs, disk)

--------------------------------------------------------------------------
(* Goals and formatting *)

meta_faturamento_ano == 1500000
meta_qtd_produtos_ano == 120
meta_ticketMedio_ano == 440
meta_faturamento_dia == 800
meta_qtd_produtos_dia == 3
meta_ticketMedio_dia == 400

\* a Python value handed to define_cores: an int or a str (its characters)
PyInt(n) == [t |-> "int", n |-> n, s |-> <<>>]
PyStr(s) == [t |-> "str", n |-> 0, s |-> s]

DigitChar(d) == <<"0", "1", "2", "3", "4", "5", "6", "7", "8", "9">>[d + 1]

\* code point of a character of a formatted number
Ord(c) ==
    CASE c = "," -> 44 [] c = "." -> 46 [] c = "0" -> 48 [] c = "1" -> 49
      [] c = "2" -> 50 [] c = "3" -> 51 [] c = "4" -> 52 [] c = "5" -> 53
      [] c = "6" -> 54 [] c = "7" -> 55 [] c = "8" -> 56 [] c = "9" -> 57

RECURSIVE Digits(_)
Digits(n) == IF n < 10 THEN <<DigitChar(n)>> ELSE Append(Digits(n \div 10), DigitChar(n % 10))

RECURSIVE Grouped(_)
\* the integer part with ',' between groups of three digits
Grouped(n) ==
    IF n < 1000 THEN Digits(n)
    ELSE LET r == n % 1000
         IN Grouped(n \div 1000)
            \o <<",", DigitChar(r \div 100), DigitChar((r \div 10) % 10), DigitChar(r % 10)>>

\* f'{valor:,.2f}' of a number >= 0: rounded to two decimals (a quotient by
\* fewer than 8 is never halfway between two of them), thousands separated
formata_valores(valor) ==
    LET cents == (200 * valor.num + valor.den) \div (2 * valor.den)
        frac == cents % 100
    IN Grouped(cents \div 100) \o <<".", DigitChar(frac \div 10), DigitChar(frac % 10)>>

RECURSIVE StrLess(_, _)
\* Python's a < b on str: by code point, a proper prefix is smaller
StrLess(a, b) ==
    IF b = <<>> THEN FALSE
    ELSE IF a = <<>> THEN TRUE
    ELSE IF Ord(Head(a)) # Ord(Head(b)) THEN Ord(Head(a)) < Ord(Head(b))
    ELSE StrLess(Tail(a), Tail(b))

\* valor_1 >= valor_2 on two ints or on two strs
PyGE(valor_1, valor_2) ==
    IF valor_1.t = "int" THEN valor_1.n >= valor_2.n
    ELSE ~StrLess(valor_1.s, valor_2.s)

define_cores(valor_1, valor_2) == IF PyGE(valor_1, valor_2) THEN "green" ELSE "red"

--------------------------------------------------------------------------
(* Indicator Engine *)

RECURSIVE SetSum(_, _)
SetSum(f, S) ==
    IF S = {} THEN 0
    ELSE LET x == CHOOSE x \in S : TRUE IN f[x] + SetSum(f, S \ {x})

\* variant: a sale counts with its first row only (groupby(...).first())
GroupSums_primeira_linha(rows) ==
    LET codes == Range(Column(rows, "SaleCode")) \ {"nan"}
    IN [c \in codes |-> SelectSeq(rows, LAMBDA r : r.SaleCode = c)[1].TotalValue]

\* df.groupby('Sale Code').sum(numeric_only=True)['Total Value']: one sum per
\* sale code present, rows without a sale code left out
GroupSums(rows) ==
    LET codes == Range(Column(rows, "SaleCode")) \ {"nan"}
    IN [c \in codes |->
            SeqSum(Column(SelectSeq(rows, LAMBDA r : r.SaleCode = c), "TotalValue"))]

\* variant: the mean is taken over the rows, not over the sales
ticket_medio_por_linha(cols, rows) ==
    IF "Sale Code" \notin cols \/ "Total Value" \notin cols THEN Num(0)
    ELSE LET vendidas == SelectSeq(rows, LAMBDA r : r.SaleCode # "nan")
         IN IF vendidas = <<>> THEN Num(0)
            ELSE [num |-> SeqSum(Column(vendidas, "TotalValue")), den |-> Len(vendidas)]

\* the two try blocks of calcula_indicadores: the mean of the sums, 0 for no
\* group and for a KeyError
ticket_medio(cols, rows) ==
    IF "Sale Code" \notin cols \/ "Total Value" \notin cols THEN Num(0)
    ELSE LET valor_venda == GroupSums(rows)
         IN IF DOMAIN valor_venda = {} THEN Num(0)
            ELSE [num |-> SetSum(valor_venda, DOMAIN valor_venda),
                  den |-> Cardinality(DOMAIN valor_venda)]

\* variant: the rows up to the day, not only the rows of the day
vendas_ate_o_dia(rows, dia_indicador) ==
    SelectSeq(rows, LAMBDA r : r.Date.kind = "dt" /\ ~dia_indicador.none
                                 /\ ~DateLess(dia_indicador, r.Date.date))

\* vendas_loja.loc[vendas_loja['Date'] == dia_indicador]
vendas_do_dia(rows, dia_indicador) ==
    SelectSeq(rows, LAMBDA r : CellEq(r.Date, dia_indicador))

\* variant: only the first row is counted
faturamento_primeira_linha(rows) ==
    Num(IF rows = <<>> THEN 0 ELSE rows[1].TotalValue)

faturamento(rows) == Num(SeqSum(Column(rows, "TotalValue")))

\* variant: the rows are counted, not the distinct products
qtd_produtos_por_linha(rows) == Len(rows)

qtd_produtos(rows) == Len(Unique(Column(rows, "Product")))

Indicadores(fat, qtd, ticket) == [faturamento |-> fat, qtd_produtos |-> qtd, ticket_medio |-> ticket]

indicadores_loja(loja, df, dia_indicador) ==
    LET vendas_loja_dia == vendas_do_dia(df.rows, dia_indicador)
    IN [loja |-> loja,
        indicadores_ano |->
            Indicadores(faturamento(df.rows), qtd_produtos(df.rows),
                        ticket_medio(df.cols, df.rows)),
        indicadores_dia |->
            Indicadores(IF vendas_loja_dia # <<>> THEN faturamento(vendas_loja_dia) ELSE Num(0),
                        IF vendas_loja_dia # <<>> THEN qtd_produtos(vendas_loja_dia) ELSE 0,
                        ticket_medio(df.cols, vendas_loja_dia))]

RECURSIVE calcula_indicadores(_, _)
\* exc is the exception that leaves the function (then nothing is returned);
\* ret is the returned dict as the sequence of its items
calcula_indicadores(dict_lojas, dia_indicador) ==
    IF dict_lojas = <<>> THEN [exc |-> "none", ret |-> <<>>]
    ELSE LET loja == Head(dict_lojas).loja
             df == Head(dict_lojas).df
             rest == calcula_indicadores(Tail(dict_lojas), dia_indicador)
         IN IF Empty(df) THEN rest
            ELSE IF {"Date", "Total Value", "Product"} \ df.cols # {}
            THEN [exc |-> "KeyError", ret |-> <<>>]
            ELSE IF rest.exc # "none" THEN rest
            ELSE [exc |-> "none",
                  ret |-> <<indicadores_loja(loja, df, dia_indicador)>> \o rest.ret]

--------------------------------------------------------------------------
(* Notifier: the per-store emails *)

Cores(fat_dia, fat_ano, qtde_dia, qtde_ano, ticket_dia, ticket_ano) ==
    [cor_fat_dia |-> fat_dia, cor_fat_ano |-> fat_ano, cor_qtde_dia |-> qtde_dia,
     cor_qtde_ano |-> qtde_ano, cor_ticket_dia |-> ticket_dia, cor_ticket_ano |-> ticket_ano]

\* the colours of one store's table: the goals and the money indicators are
\* formatted first, the product counts are not
cores_da_loja(ind) ==
    Cores(define_cores(PyStr(formata_valores(ind.indicadores_dia.faturamento)),
                       PyStr(formata_valores(Num(meta_faturamento_dia)))),
          define_cores(PyStr(formata_valores(ind.indicadores_ano.faturamento)),
                       PyStr(formata_valores(Num(meta_faturamento_ano)))),
          define_cores(PyInt(ind.indicadores_dia.qtd_produtos), PyInt(meta_qtd_produtos_dia)),
          define_cores(PyInt(ind.indicadores_ano.qtd_produtos), PyInt(meta_qtd_produtos_ano)),
          define_cores(PyStr(formata_valores(ind.indicadores_dia.ticket_medio)),
                       PyStr(formata_valores(Num(meta_ticketMedio_dia)))),
          define_cores(PyStr(formata_valores(ind.indicadores_ano.ticket_medio)),
                       PyStr(formata_valores(Num(meta_ticketMedio_ano)))))

MailLoja(loja, to, anexos, cores) ==
    [loja |-> loja, To |-> to, anexos |-> anexos, cores |-> cores]

\* variant: a store missing from the roster is mailed to the roster's first row
envia_uma_sem_roster(outlook, ind, dia_indicador, caminho_backup, emails, fs, falhas) ==
    LET nome_loja == ind.loja
        nome_arquivo == FileName(dia_indicador.m, dia_indicador.d, nome_loja)
    IN IF emails.none \/ emails.rows = <<>> \/ outlook = "None" \/ dia_indicador.none
          \/ caminho_backup = "None" \/ ~LojaExists(fs, nome_loja, nome_arquivo)
          \/ nome_loja \in falhas
       THEN [sent |-> FALSE, mail |-> MailLoja(nome_loja, "", {}, cores_da_loja(ind)),
             log |-> <<"E:envia_email">>, tentou |-> TRUE, criou |-> FALSE]
       ELSE [sent |-> TRUE,
             mail |-> MailLoja(nome_loja, emails.rows[1].Email,
                               {Anexo(nome_loja, nome_arquivo)}, cores_da_loja(ind)),
             log |-> <<"I:envia_email">>, tentou |-> TRUE, criou |-> TRUE]

\* variant: the message is made and sent without a mail client
envia_uma_sem_cliente(outlook, ind, dia_indicador, caminho_backup, emails, fs, falhas) ==
    LET nome_loja == ind.loja
        linhas == SelectSeq(emails.rows, LAMBDA r : r.Store = nome_loja)
        nao == [sent |-> FALSE, mail |-> MailLoja(nome_loja, "", {}, cores_da_loja(ind)),
                log |-> <<"E:envia_email">>, tentou |-> FALSE, criou |-> FALSE]
        falhou == [nao EXCEPT !.tentou = TRUE]
        perdeu == [nao EXCEPT !.tentou = TRUE, !.criou = TRUE]
    IN IF emails.none \/ "Store" \notin emails.cols THEN nao
       ELSE IF linhas = <<>> THEN [nao EXCEPT !.log = <<>>]
       ELSE IF {"Manager", "E-mail"} \ emails.cols # {} THEN falhou
       ELSE IF linhas[1].Manager = "" \/ linhas[1].Email = "" THEN falhou
       ELSE IF dia_indicador.none THEN perdeu
       ELSE IF caminho_backup = "None" THEN perdeu
       ELSE LET nome_arquivo == FileName(dia_indicador.m, dia_indicador.d, nome_loja)
            IN IF ~LojaExists(fs, nome_loja, nome_arquivo) THEN perdeu
               ELSE IF nome_loja \in falhas THEN perdeu
               ELSE [sent |-> TRUE,
                     mail |-> MailLoja(nome_loja, linhas[1].Email,
                                       {Anexo(nome_loja, nome_arquivo)}, cores_da_loja(ind)),
                     log |-> <<"I:envia_email">>, tentou |-> TRUE, criou |-> TRUE]

\* one pass of the loop of envia_email: the mail sent for the store, if any
\* (sent = FALSE: the store is not in the roster, its row is incomplete, or an
\* exception was caught); falhas are the stores whose mail.Send() raises.
\* tentou: the store has a roster row, so the pass works on its message;
\* criou: outlook.CreateItem(0) gave the pass a message
envia_uma(outlook, ind, dia_indicador, caminho_backup, emails, fs, falhas) ==
    LET nome_loja == ind.loja
        linhas == SelectSeq(emails.rows, LAMBDA r : r.Store = nome_loja)
        nao == [sent |-> FALSE, mail |-> MailLoja(nome_loja, "", {}, cores_da_loja(ind)),
                log |-> <<"E:envia_email">>, tentou |-> FALSE, criou |-> FALSE]
        falhou == [nao EXCEPT !.tentou = TRUE]
        perdeu == [nao EXCEPT !.tentou = TRUE, !.criou = TRUE]
    IN IF emails.none \/ "Store" \notin emails.cols THEN nao
       ELSE IF linhas = <<>> THEN [nao EXCEPT !.log = <<>>]
       ELSE IF {"Manager", "E-mail"} \ emails.cols # {} THEN falhou
       ELSE IF linhas[1].Manager = "" \/ linhas[1].Email = "" THEN falhou
       ELSE IF outlook = "None" THEN falhou
       ELSE IF dia_indicador.none THEN perdeu
       ELSE IF caminho_backup = "None" THEN perdeu
       ELSE LET nome_arquivo == FileName(dia_indicador.m, dia_indicador.d, nome_loja)
            IN IF ~LojaExists(fs, nome_loja, nome_arquivo) THEN perdeu
               ELSE IF nome_loja \in falhas THEN perdeu
               ELSE [sent |-> TRUE,
                     mail |-> MailLoja(nome_loja, linhas[1].Email,
                                       {Anexo(nome_loja, nome_arquivo)}, cores_da_loja(ind)),
                     log |-> <<"I:envia_email">>, tentou |-> TRUE, criou |-> TRUE]

\* what one pass r adds before what the later passes did
Passo(r, rest) ==
    [mails |-> (IF r.sent THEN <<r.mail>> ELSE <<>>) \o rest.mails,
     log |-> r.log \o rest.log,
     tentativas |-> (IF r.tentou THEN <<r.mail.loja>> ELSE <<>>) \o rest.tentativas,
     criados |-> (IF r.criou THEN <<r.mail.loja>> ELSE <<>>) \o rest.criados]

RECURSIVE envia_loop_para_na_falha(_, _, _, _, _, _, _)
\* variant: the first pass that fails ends the loop
envia_loop_para_na_falha(outlook, inds, dia_indicador, caminho_backup, emails, fs, falhas) ==
    IF inds = <<>> THEN [mails |-> <<>>, log |-> <<>>, tentativas |-> <<>>, criados |-> <<>>]
    ELSE LET r == envia_uma(outlook, Head(inds), dia_indicador, caminho_backup, emails, fs, falhas)
             rest == IF r.tentou /\ ~r.sent
                     THEN [mails |-> <<>>, log |-> <<>>, tentativas |-> <<>>, criados |-> <<>>]
                     ELSE envia_loop_para_na_falha(outlook, Tail(inds), dia_indicador,
                                                   caminho_backup, emails, fs, falhas)
         IN [mails |-> (IF r.sent THEN <<r.mail>> ELSE <<>>) \o rest.mails,
             log |-> r.log \o rest.log,
             tentativas |-> (IF r.tentou THEN <<Head(inds).loja>> ELSE <<>>) \o rest.tentativas,
             criados |-> (IF r.criou THEN <<Head(inds).loja>> ELSE <<>>) \o rest.criados]

RECURSIVE envia_loop(_, _, _, _, _, _, _)
envia_loop(outlook, inds, dia_indicador, caminho_backup, emails, fs, falhas) ==
    IF inds = <<>> THEN [mails |-> <<>>, log |-> <<>>, tentativas |-> <<>>, criados |-> <<>>]
    ELSE Passo(envia_uma(outlook, Head(inds), dia_indicador, caminho_backup, emails, fs, falhas),
               envia_loop(outlook, Tail(inds), dia_indicador, caminho_backup, emails, fs, falhas))

ComCalc(calc, r) ==
    [calc |-> calc, mails |-> r.mails, log |-> r.log,
     tentativas |-> r.tentativas, criados |-> r.criados]

\* calc is what calcula_indicadores did inside the first try
envia_com_indicadores(outlook, calc, dia_indicador, caminho_backup, emails, fs, falhas) ==
    IF calc.exc # "none"
    THEN [calc |-> calc, mails |-> <<>>, log |-> <<"E:envia_email">>,
          tentativas |-> <<>>, criados |-> <<>>]
    ELSE ComCalc(calc, envia_loop(outlook, calc.ret, dia_indicador, caminho_backup,
                                  emails, fs, falhas))

envia_email(outlook, dict_lojas, dia_indicador, caminho_backup, emails, fs, falhas) ==
    envia_com_indicadores(outlook, calcula_indicadores(dict_lojas, dia_indicador),
                          dia_indicador, caminho_backup, emails, fs, falhas)

--------------------------------------------------------------------------
(* Ranking *)

\* the store keys in the order groupby sorts them
STORE_ORDER == <<"A", "B">>

RankRow(store, total) == [Store |-> store, TotalValue |-> total]

\* variant: every store is given the total of the whole table
GroupByStore_sem_filtro(rows) ==
    LET present == SelectSeq(STORE_ORDER, LAMBDA k : \E i \in 1..Len(rows) : rows[i].Store = k)
    IN [i \in 1..Len(present) |-> RankRow(present[i], SeqSum(Column(rows, "TotalValue")))]

\* sales.groupby('Store')[['Total Value']].sum(): one row per store present
GroupByStore(rows) ==
    LET present == SelectSeq(STORE_ORDER, LAMBDA k : \E i \in 1..Len(rows) : rows[i].Store = k)
    IN [i \in 1..Len(present) |->
          RankRow(present[i],
                  SeqSum(Column(SelectSeq(rows, LAMBDA r : r.Store = present[i]), "TotalValue")))]

RECURSIVE InsertAsc(_, _, _)
\* variant: ascending=True
InsertAsc(x, sorted, ties) ==
    IF sorted = <<>> THEN <<x>>
    ELSE IF \/ Head(sorted).TotalValue > x.TotalValue
            \/ ties = "swap" /\ Head(sorted).TotalValue = x.TotalValue
         THEN <<x>> \o sorted
         ELSE <<Head(sorted)>> \o InsertAsc(x, Tail(sorted), ties)

RECURSIVE InsertDesc(_, _, _)
\* x put before the first smaller row; among equal rows the place is not
\* specified: after them (ties = "keep") or before them (ties = "swap")
InsertDesc(x, sorted, ties) ==
    IF sorted = <<>> THEN <<x>>
    ELSE IF \/ Head(sorted).TotalValue < x.TotalValue
            \/ ties = "swap" /\ Head(sorted).TotalValue = x.TotalValue
         THEN <<x>> \o sorted
         ELSE <<Head(sorted)>> \o InsertDesc(x, Tail(sorted), ties)

RECURSIVE sort_values(_, _)
\* DataFrame.sort_values(by='Total Value', ascending=False)
sort_values(rows, ties) ==
    IF rows = <<>> THEN <<>>
    ELSE InsertDesc(rows[Len(rows)], sort_values(SubSeq(rows, 1, Len(rows) - 1), ties), ties)

RANK_COLS == {"Store", "Total Value"}

cria_rankings(dia_indicador, sales, fs, disk, ties) ==
    LET erro == [ano |-> NoneDF, dia |-> NoneDF, fs |-> fs, log |-> <<"E:cria_rankings">>,
                 escritos |-> {}]
    IN IF sales.none THEN erro
       ELSE IF {"Store", "Total Value", "Date"} \ sales.cols # {} THEN erro
       ELSE LET faturamento_lojas_ano == sort_values(GroupByStore(sales.rows), ties)
            IN IF dia_indicador.none THEN erro
               ELSE LET nome_ano == FileName(dia_indicador.m, dia_indicador.d, "Ranking_Anual")
                        nome_dia == FileName(dia_indicador.m, dia_indicador.d, "Ranking_Dia")
                        vendas_dia == vendas_do_dia(sales.rows, dia_indicador)
                        faturamento_lojas_dia == sort_values(GroupByStore(vendas_dia), ties)
                    IN IF ~fs.root \/ disk # "ok" THEN erro
                       ELSE LET fs1 == WriteRank(fs, RankFile(nome_ano, faturamento_lojas_ano))
                            IN IF vendas_dia = <<>>
                               THEN [ano |-> DF(RANK_COLS, faturamento_lojas_ano),
                                     dia |-> DF(RANK_COLS, <<>>),
                                     fs |-> fs1, log |-> <<"W:cria_rankings">>,
                                     escritos |-> {Anexo("", nome_ano)}]
                               ELSE [ano |-> DF(RANK_COLS, faturamento_lojas_ano),
                                     dia |-> DF(RANK_COLS, faturamento_lojas_dia),
                                     fs |-> WriteRank(fs1, RankFile(nome_dia, faturamento_lojas_dia)),
                                     log |-> <<>>,
                                     escritos |-> {Anexo("", nome_ano), Anexo("", nome_dia)}]

--------------------------------------------------------------------------
(* Notifier: the executive email *)

\* variant: the first row is named worst and the last row best
MailDiretoria_trocada(to, anexos, melhor_dia, pior_dia, melhor_ano, pior_ano) ==
    [To |-> to, anexos |-> anexos, melhor_loja_dia |-> pior_dia, pior_loja_dia |-> melhor_dia,
     melhor_loja_ano |-> pior_ano, pior_loja_ano |-> melhor_ano]

MailDiretoria(to, anexos, melhor_dia, pior_dia, melhor_ano, pior_ano) ==
    [To |-> to, anexos |-> anexos, melhor_loja_dia |-> melhor_dia, pior_loja_dia |-> pior_dia,
     melhor_loja_ano |-> melhor_ano, pior_loja_ano |-> pior_ano]

\* variant: without a "CEO" row the first row of the roster is used
linhas_diretoria_ou_primeira(emails) ==
    IF \E i \in 1..Len(emails.rows) : emails.rows[i].Store = "CEO"
    THEN SelectSeq(emails.rows, LAMBDA r : r.Store = "CEO")
    ELSE emails.rows

\* emails.loc[emails['Store'] == 'CEO']
linhas_diretoria(emails) == SelectSeq(emails.rows, LAMBDA r : r.Store = "CEO")

\* variant: the day ranking is not attached
anexos_diretoria_so_anual(dia_indicador, fs) ==
    {FileName(dia_indicador.m, dia_indicador.d, t) :
        t \in {t \in {"Ranking_Anual"} :
                 RankExists(fs, FileName(dia_indicador.m, dia_indicador.d, t))}}

\* the loop over the two ranking files: the ones that exist are attached
anexos_diretoria(dia_indicador, fs) ==
    {FileName(dia_indicador.m, dia_indicador.d, t) :
        t \in {t \in {"Ranking_Anual", "Ranking_Dia"} :
                 RankExists(fs, FileName(dia_indicador.m, dia_indicador.d, t))}}

email_diretoria(outlook, faturamento_lojas_ano, faturamento_lojas_dia, dia_indicador, emails, caminho_backup, fs, falha) ==
    \* falha: mail.Send() raises; criou: outlook.CreateItem(0) gave a message
    LET nao == [mails |-> <<>>, log |-> <<"E:email_diretoria">>, criou |-> FALSE]
        perdeu == [nao EXCEPT !.criou = TRUE]
        ceo == linhas_diretoria(emails)
    IN IF emails.none \/ "Store" \notin emails.cols THEN nao
       ELSE IF ceo = <<>> THEN nao
       ELSE IF "E-mail" \notin emails.cols THEN nao
       ELSE IF faturamento_lojas_ano.none \/ faturamento_lojas_dia.none THEN nao
       ELSE IF Empty(faturamento_lojas_ano) \/ Empty(faturamento_lojas_dia) THEN nao
       ELSE IF outlook = "None" THEN nao
       ELSE IF dia_indicador.none THEN perdeu
       ELSE IF caminho_backup = "None" THEN perdeu
       ELSE IF falha THEN perdeu
       ELSE LET ano == faturamento_lojas_ano.rows
                dia == faturamento_lojas_dia.rows
                anexos == anexos_diretoria(dia_indicador, fs)
            IN [mails |->
                  <<MailDiretoria(ceo[1].Email, anexos,
                                  dia[1].Store, dia[Len(dia)].Store,
                                  ano[1].Store, ano[Len(ano)].Store)>>,
                log |-> [t \in 1..(2 - Cardinality(anexos)) |-> "E:email_diretoria"]
                        \o <<"I:email_diretoria">>,
                criou |-> TRUE]

--------------------------------------------------------------------------
(* main(): a run, stage by stage; the script may be run again over the     *)
(* backup tree the runs before it left                                     *)

VARIABLES
    programa,               \* the file that is run
    gemeo,                  \* the comparison of the two files, when one is made
    caminho,                \* the argument carrega_dfs is called with
    pc,                     \* the stage main() calls next
    run,                    \* the number of this invocation of the script
    sc,                     \* the input files and the platform of the run
    outlook, vendas, emails, lojas, dict_lojas, dia_indicador,
    caminho_backup, lista_nomes_backup,
    faturamento_lojas_ano, faturamento_lojas_dia,   \* the locals of main()
    fs,                     \* the backup tree
    escritos,               \* the paths to_excel wrote in this run
    calc,                   \* what calcula_indicadores did inside envia_email
    tentativas,             \* the stores whose message envia_email worked on
    criados,                \* the receivers of the messages CreateItem made
    enviados,               \* the per-store mails sent
    enviados_diretoria,     \* the executive mails sent
    log,                    \* the records this run appended to Logs/app.log
    exc                     \* the exception that reached main()'s handlers

locals == <<outlook, vendas, emails, lojas, dict_lojas, dia_indicador,
            caminho_backup, lista_nomes_backup, faturamento_lojas_ano, faturamento_lojas_dia>>
correio == <<tentativas, criados, enviados, enviados_diretoria>>
vars == <<programa, gemeo, caminho, pc, run, sc, locals, fs, escritos, calc, correio, log, exc>>

\* the calls of main(), in the order of its body
ETAPAS ==
    <<"configura_log", "configura_outlook", "carrega_dfs", "merge_dfs",
      "cria_tabelas_para_lojas", "cria_indicador_dia", "pega_caminho_backup",
      "lista_nomes_doBackup", "cria_pastas_para_lojas", "salva_excel_para_cada_loja",
      "envia_email", "cria_rankings", "email_diretoria", "done">>

\* variant: the store mails are sent before the store spreadsheets are saved
Seguinte_trocada(etapa) ==
    CASE etapa = "cria_pastas_para_lojas" -> "envia_email"
      [] etapa = "envia_email" -> "salva_excel_para_cada_loja"
      [] etapa = "salva_excel_para_cada_loja" -> "cria_rankings"
      [] OTHER -> ETAPAS[(CHOOSE i \in 1..Len(ETAPAS) : ETAPAS[i] = etapa) + 1]

\* the statement that follows a call in main()
Seguinte(etapa) == ETAPAS[(CHOOSE i \in 1..Len(ETAPAS) : ETAPAS[i] = etapa) + 1]

\* the calls of main() of main-eng-docstrings.py, in the order of its body
ETAPAS_eng ==
    <<"configura_log", "configura_outlook", "carrega_dfs", "merge_dfs",
      "cria_tabelas_para_lojas", "cria_indicador_dia", "pega_caminho_backup",
      "lista_nomes_doBackup", "cria_pastas_para_lojas", "salva_excel_para_cada_loja",
      "envia_email", "cria_rankings", "email_diretoria", "done">>

\* variant: the store mails are sent before the store spreadsheets are saved
Seguinte_eng_trocada(etapa) ==
    CASE etapa = "cria_pastas_para_lojas" -> "envia_email"
      [] etapa = "envia_email" -> "salva_excel_para_cada_loja"
      [] etapa = "salva_excel_para_cada_loja" -> "cria_rankings"
      [] OTHER -> ETAPAS_eng[(CHOOSE i \in 1..Len(ETAPAS_eng) : ETAPAS_eng[i] = etapa) + 1]

\* the statement that follows a call in main() of main-eng-docstrings.py
Seguinte_eng(etapa) ==
    ETAPAS_eng[(CHOOSE i \in 1..Len(ETAPAS_eng) : ETAPAS_eng[i] = etapa) + 1]

Programas == {"main.py", "main-eng-docstrings.py"}

\* the statement that follows a call in the file that is run.  The functions
\* the two files define differ in the text of string literals only (log
\* messages, subjects, bodies), which the stage operators leave out.
Proxima(prog, etapa) ==
    IF prog = "main.py" THEN Seguinte(etapa) ELSE Seguinte_eng(etapa)

\* no comparison: one file is run
SemGemeo ==
    [ativo |-> FALSE, etapas |-> <<>>, falhas |-> {}, ties |-> "keep", falha |-> FALSE,
     primeira |-> <<>>]

\* the stage called is noted when the two files are compared
Anota(g, etapa) == IF g.ativo THEN [g EXCEPT !.etapas = Append(@, etapa)] ELSE g

\* the outcomes of the I/O and mail calls: any in a run on its own and in
\* the first run of a comparison, those of the first run in the second
Escolhas(g, todas, feita) ==
    IF g.ativo /\ g.primeira # <<>> THEN {feita} ELSE todas

\* the state of the process when main() is entered
Entrada ==
    /\ outlook = "None"
    /\ vendas = NoneDF /\ emails = NoneDF /\ lojas = NoneDF
    /\ dict_lojas = <<>>
    /\ dia_indicador = NoDate
    /\ caminho_backup = "None"
    /\ lista_nomes_backup = {}
    /\ faturamento_lojas_ano = NoneDF /\ faturamento_lojas_dia = NoneDF
    /\ escritos = {}
    /\ calc = [exc |-> "none", ret |-> <<>>]
    /\ tentativas = <<>>
    /\ criados = <<>>
    /\ enviados = <<>>
    /\ enviados_diretoria = <<>>
    /\ log = <<>>
    /\ exc = "none"

Init ==
    /\ programa = "main.py"
    /\ gemeo = SemGemeo
    /\ caminho = "None"
    /\ pc = "configura_log"
    /\ run = 1
    /\ \E s \in Scenarios : sc = [s EXCEPT !.rows = RowsAt(@)]
    /\ fs = EmptyFS
    /\ Entrada

\* variant: main() without its last handler, `except Exception`
main_except_sem_geral(e) ==
    IF e = "none" THEN <<>>
    ELSE IF e \in {"FileNotFoundError", "KeyError"} THEN <<"E:main">>
    ELSE <<"C:__main__">>

\* the handlers of main(): what is logged for the exception that left a
\* stage.  Every Exception is caught and logged as an error; one that main()
\* did not catch would be logged as critical by the handler around the call
\* of main()
main_except(e) ==
    IF e = "none" THEN <<>> ELSE <<"E:main">>

\* logging.INFO(...) is not callable: the handler of configura_log logs the error
Call_configura_log ==
    /\ pc = "configura_log"
    /\ pc' = Proxima(programa, pc)
    /\ log' = Append(log, "E:configura_log")
    /\ gemeo' = Anota(gemeo, pc)
    /\ UNCHANGED <<programa, caminho, run, sc, locals, fs, escritos, calc, correio, exc>>

Call_configura_outlook ==
    /\ pc = "configura_outlook"
    /\ pc' = Proxima(programa, pc)
    /\ outlook' = sc.env.outlook
    /\ log' = Append(log, IF sc.env.outlook = "None" THEN "E:configura_outlook"
                          ELSE "I:configura_outlook")
    /\ gemeo' = Anota(gemeo, pc)
    /\ UNCHANGED <<programa, caminho, run, sc, vendas, emails, lojas, dict_lojas, dia_indicador, caminho_backup,
                   lista_nomes_backup, faturamento_lojas_ano, faturamento_lojas_dia,
                   fs, escritos, calc, correio, exc>>

Call_carrega_dfs ==
    /\ pc = "carrega_dfs"
    /\ \E r \in {carrega_dfs(caminho, sc)} :
          /\ vendas' = r.vendas /\ emails' = r.emails /\ lojas' = r.lojas
          /\ exc' = r.exc
          /\ pc' = IF r.exc = "none" THEN Proxima(programa, pc) ELSE "done"
          /\ log' = IF r.exc # "none" THEN log \o main_except(r.exc)
                    ELSE IF r.vendas.none THEN Append(log, "E:carrega_dfs") ELSE log
    /\ gemeo' = Anota(gemeo, pc)
    /\ UNCHANGED <<programa, caminho, run, sc, outlook, dict_lojas, dia_indicador, caminho_backup,
                   lista_nomes_backup, faturamento_lojas_ano, faturamento_lojas_dia,
                   fs, escritos, calc, correio>>

Call_merge_dfs ==
    /\ pc = "merge_dfs"
    /\ pc' = Proxima(programa, pc)
    /\ vendas' = merge_dfs(vendas, lojas, "Store ID")
    /\ log' = IF vendas'.none THEN Append(log, "E:merge_dfs") ELSE log
    /\ gemeo' = Anota(gemeo, pc)
    /\ UNCHANGED <<programa, caminho, run, sc, outlook, emails, lojas, dict_lojas, dia_indicador, caminho_backup,
                   lista_nomes_backup, faturamento_lojas_ano, faturamento_lojas_dia,
                   fs, escritos, calc, correio, exc>>

Call_cria_tabelas_para_lojas ==
    /\ pc = "cria_tabelas_para_lojas"
    /\ pc' = Proxima(programa, pc)
    /\ dict_lojas' = cria_tabelas_para_lojas(lojas, vendas, "Store")
    /\ log' = IF dict_lojas' = <<>> THEN Append(log, "E:cria_tabelas_para_lojas") ELSE log
    /\ gemeo' = Anota(gemeo, pc)
    /\ UNCHANGED <<programa, caminho, run, sc, outlook, vendas, emails, lojas, dia_indicador, caminho_backup,
                   lista_nomes_backup, faturamento_lojas_ano, faturamento_lojas_dia,
                   fs, escritos, calc, correio, exc>>

Call_cria_indicador_dia ==
    /\ pc = "cria_indicador_dia"
    /\ pc' = Proxima(programa, pc)
    /\ \E r \in {cria_indicador_dia(vendas)} :
          /\ dia_indicador' = r.dia
          /\ vendas' = r.sales
          /\ log' = IF r.dia.none THEN Append(log, "E:cria_indicador_dia") ELSE log
    /\ gemeo' = Anota(gemeo, pc)
    /\ UNCHANGED <<programa, caminho, run, sc, outlook, emails, lojas, dict_lojas, caminho_backup,
                   lista_nomes_backup, faturamento_lojas_ano, faturamento_lojas_dia,
                   fs, escritos, calc, correio, exc>>

Call_pega_caminho_backup ==
    /\ pc = "pega_caminho_backup"
    /\ pc' = Proxima(programa, pc)
    /\ \E r \in {pega_caminho_backup(fs, sc.env.disk)} :
          caminho_backup' = r.caminho /\ fs' = r.fs /\ log' = log \o r.log
    /\ gemeo' = Anota(gemeo, pc)
    /\ UNCHANGED <<programa, caminho, run, sc, outlook, vendas, emails, lojas, dict_lojas, dia_indicador,
                   lista_nomes_backup, faturamento_lojas_ano, faturamento_lojas_dia,
                   escritos, calc, correio, exc>>

Call_lista_nomes_doBackup ==
    /\ pc = "lista_nomes_doBackup"
    /\ pc' = Proxima(programa, pc)
    /\ lista_nomes_backup' = lista_nomes_doBackup(caminho_backup, fs)
    /\ gemeo' = Anota(gemeo, pc)
    /\ UNCHANGED <<programa, caminho, run, sc, outlook, vendas, emails, lojas, dict_lojas, dia_indicador,
                   caminho_backup, faturamento_lojas_ano, faturamento_lojas_dia,
                   fs, escritos, calc, correio, log, exc>>

Call_cria_pastas_para_lojas ==
    /\ pc = "cria_pastas_para_lojas"
    /\ pc' = Proxima(programa, pc)
    /\ fs' = cria_pastas_para_lojas(dict_lojas, lista_nomes_backup, caminho_backup, fs,
                                    sc.env.disk)
    /\ \E ruins \in {pastas_com_erro(dict_lojas, lista_nomes_backup, caminho_backup, fs,
                                     sc.env.disk)} :
          log' = log \o log_cria_pastas(dict_lojas, lista_nomes_backup, caminho_backup,
                                         fs, ruins)
    /\ gemeo' = Anota(gemeo, pc)
    /\ UNCHANGED <<programa, caminho, run, sc, locals, escritos, calc, correio, exc>>

\* an exception that leaves the stage is caught by the handlers of main(),
\* which log it; the stages after it are not called
Call_salva_excel_para_cada_loja ==
    /\ pc = "salva_excel_para_cada_loja"
    /\ \E r \in {salva_excel_para_cada_loja(dict_lojas, dia_indicador, caminho_backup,
                                            fs, sc.env.disk)} :
          /\ fs' = r.fs
          /\ escritos' = escritos \cup r.escritos
          /\ exc' = r.exc
          /\ pc' = IF r.exc = "none" THEN Proxima(programa, pc) ELSE "done"
          /\ log' = log \o r.log \o main_except(r.exc)
    /\ gemeo' = Anota(gemeo, pc)
    /\ UNCHANGED <<programa, caminho, run, sc, locals, calc, correio>>

Call_envia_email ==
    /\ pc = "envia_email"
    /\ pc' = Proxima(programa, pc)
    /\ \E falhas \in Escolhas(gemeo,
                               SUBSET {STORE_ORDER[i] : i \in 1..Len(STORE_ORDER)},
                               gemeo.falhas) :
         \E r \in {envia_email(outlook, dict_lojas, dia_indicador, caminho_backup,
                                emails, fs, falhas)} :
            /\ gemeo' = [Anota(gemeo, pc) EXCEPT !.falhas = IF gemeo.ativo THEN falhas ELSE @]
            /\ calc' = r.calc
            /\ tentativas' = tentativas \o r.tentativas
            /\ criados' = criados \o r.criados
            /\ enviados' = enviados \o r.mails
            /\ log' = log \o r.log
    /\ UNCHANGED <<programa, caminho, run, sc, locals, fs, escritos, enviados_diretoria, exc>>

Call_cria_rankings ==
    /\ pc = "cria_rankings"
    /\ pc' = Proxima(programa, pc)
    /\ \E ties \in Escolhas(gemeo, {"keep", "swap"}, gemeo.ties) :
         \E r \in {cria_rankings(dia_indicador, vendas, fs, sc.env.disk, ties)} :
            /\ gemeo' = [Anota(gemeo, pc) EXCEPT !.ties = IF gemeo.ativo THEN ties ELSE @]
            /\ faturamento_lojas_ano' = r.ano
            /\ faturamento_lojas_dia' = r.dia
            /\ fs' = r.fs
            /\ escritos' = escritos \cup r.escritos
            /\ log' = log \o r.log
    /\ UNCHANGED <<programa, caminho, run, sc, outlook, vendas, emails, lojas, dict_lojas, dia_indicador,
                   caminho_backup, lista_nomes_backup, calc, correio, exc>>

Call_email_diretoria ==
    /\ pc = "email_diretoria"
    /\ pc' = Proxima(programa, pc)
    /\ \E falha \in Escolhas(gemeo, BOOLEAN, gemeo.falha) :
         \E r \in {email_diretoria(outlook, faturamento_lojas_ano, faturamento_lojas_dia,
                                    dia_indicador, emails, caminho_backup, fs, falha)} :
            /\ gemeo' = [Anota(gemeo, pc) EXCEPT !.falha = IF gemeo.ativo THEN falha ELSE @]
            /\ enviados_diretoria' = enviados_diretoria \o r.mails
            /\ criados' = criados \o (IF r.criou THEN <<"CEO">> ELSE <<>>)
            /\ log' = log \o r.log
    /\ UNCHANGED <<programa, caminho, run, sc, locals, fs, escritos, calc, tentativas, enviados, exc>>

\* the script is started again: new input files and a new process, over the
\* backup tree as the run before left it
NovaExecucao ==
    /\ pc = "done"
    /\ ~gemeo.ativo
    /\ UNCHANGED <<programa, gemeo, caminho>>
    /\ run < MaxRuns
    /\ Len(sc.rows) <= MaxRowsBefore
    /\ pc' = "configura_log"
    /\ run' = run + 1
    /\ sc' \in Reexecucoes
    /\ fs' = fs
    /\ outlook' = "None"
    /\ vendas' = NoneDF /\ emails' = NoneDF /\ lojas' = NoneDF
    /\ dict_lojas' = <<>>
    /\ dia_indicador' = NoDate
    /\ caminho_backup' = "None"
    /\ lista_nomes_backup' = {}
    /\ faturamento_lojas_ano' = NoneDF /\ faturamento_lojas_dia' = NoneDF
    /\ escritos' = {}
    /\ calc' = [exc |-> "none", ret |-> <<>>]
    /\ tentativas' = <<>>
    /\ criados' = <<>>
    /\ enviados' = <<>>
    /\ enviados_diretoria' = <<>>
    /\ log' = <<>>
    /\ exc' = "none"

Next ==
    \/ Call_configura_log
    \/ Call_configura_outlook
    \/ Call_carrega_dfs
    \/ Call_merge_dfs
    \/ Call_cria_tabelas_para_lojas
    \/ Call_cria_indicador_dia
    \/ Call_pega_caminho_backup
    \/ Call_lista_nomes_doBackup
    \/ Call_cria_pastas_para_lojas
    \/ Call_salva_excel_para_cada_loja
    \/ Call_envia_email
    \/ Call_cria_rankings
    \/ Call_email_diretoria
    \/ NovaExecucao

Spec == Init /\ [][Next]_vars

\* the runs over the short sales tables
InitFair ==
    /\ programa = "main.py"
    /\ gemeo = SemGemeo
    /\ caminho = "None"
    /\ pc = "configura_log"
    /\ run = 1
    /\ \E s \in {x \in Scenarios : Len(x.rows) <= MaxRowsBefore} :
          sc = [s EXCEPT !.rows = RowsAt(@)]
    /\ fs = EmptyFS
    /\ Entrada

\* control leaves the statement main() is at
Retorna == pc # "done" /\ pc' # pc

\* main() is straight-line code and every call in it returns or raises
\* (each I/O or mail call completes or raises): a run that has a statement
\* left goes on from it.  Nothing obliges the script to be started again.
\* This is weak fairness of the steps of a run, WF_vars(Next /\ pc # "done"),
\* written out with the enabling condition of those steps, pc # "done"
\* (every call of main() has a step from every state at its statement).
SpecFair == InitFair /\ [][Next]_vars /\ ([]<>(pc = "done") \/ []<><<Retorna>>_pc)

TypeOK ==
    /\ pc \in Range(ETAPAS)
    /\ run \in 1..MaxRuns
    /\ exc \in {"none", "AttributeError", "UnboundLocalError"}

--------------------------------------------------------------------------
(* cria_rankings called on its own: a joined and date-converted sales      *)
(* table (or None), any reference day (one of the table or not, or None),  *)
(* a backup root that exists or not and a disk that takes the writes or    *)
(* not; the executive email follows as in main()                           *)

OtherDay == Date(2024, 1, 1)

RankingInputs ==
    {[sales |-> s, dia |-> d, root |-> r, disk |-> k] :
        s \in {NoneDF} \cup
              {cria_indicador_dia(
                   merge_dfs(DF(ALL_SALES_COLS, RowsAt(t)), StoresFile, "Store ID")).sales :
                 t \in UNION {RowTables(n, 1) : n \in 1..(MaxRows - 1)}},
        d \in {Day1, Day2, OtherDay, NoDate},
        r \in BOOLEAN,
        k \in {"ok", "fail"}}

InitRankings ==
    /\ programa = "main.py"
    /\ gemeo = SemGemeo
    /\ caminho = "None"
    /\ pc = "cria_rankings"
    /\ run = 1
    /\ \E x \in RankingInputs :
        /\ sc = Scenario(<<>>, <<RowA, RowB, RowCEO>>, Env("ok", {}, "app", x.disk))
        /\ vendas = x.sales
        /\ dia_indicador = x.dia
        /\ fs = [EmptyFS EXCEPT !.root = x.root]
        /\ caminho_backup = IF x.root THEN BACKUP ELSE "None"
    /\ outlook = "app"
    /\ emails = DF({"Store", "Manager", "E-mail"}, <<RowA, RowB, RowCEO>>)
    /\ lojas = StoresFile
    /\ dict_lojas = <<>>
    /\ lista_nomes_backup = {}
    /\ faturamento_lojas_ano = NoneDF /\ faturamento_lojas_dia = NoneDF
    /\ escritos = {}
    /\ calc = [exc |-> "none", ret |-> <<>>]
    /\ tentativas = <<>>
    /\ criados = <<>>
    /\ enviados = <<>>
    /\ enviados_diretoria = <<>>
    /\ log = <<>>
    /\ exc = "none"

NextRankings ==
    \/ Call_cria_rankings
    \/ Call_email_diretoria

SpecRankings == InitRankings /\ [][NextRankings]_vars

--------------------------------------------------------------------------
(* carrega_dfs called on its own, with the default paths or with a         *)
(* dictionary of paths, by a caller that catches as main() does            *)

InitCarrega ==
    /\ programa \in Programas
    /\ gemeo = SemGemeo
    /\ caminho \in {"None", "override"}
    /\ pc = "carrega_dfs"
    /\ run = 1
    /\ \E s \in {x \in Scenarios : Len(x.rows) <= MaxRowsBefore} :
          sc = [s EXCEPT !.rows = RowsAt(@)]
    /\ fs = EmptyFS
    /\ Entrada

NextCarrega == Call_carrega_dfs

SpecCarrega == InitCarrega /\ [][NextCarrega]_vars

--------------------------------------------------------------------------
(* The two files compared: main.py is run, then main-eng-docstrings.py on  *)
(* the same input files, the same platform and the same backup tree, with  *)
(* the same outcomes of the mail calls and the same order of equal rows    *)

\* what a run has done: the stages it called, the files it wrote, the mails
\* it made and sent, the records it logged (level and function, not text)
Resultado ==
    [etapas |-> gemeo.etapas, fs |-> fs, escritos |-> escritos,
     tentativas |-> tentativas, criados |-> criados,
     enviados |-> enviados, enviados_diretoria |-> enviados_diretoria,
     ano |-> faturamento_lojas_ano, dia |-> faturamento_lojas_dia,
     log |-> log, exc |-> exc]

InitProgramas ==
    /\ programa = "main.py"
    /\ gemeo = [SemGemeo EXCEPT !.ativo = TRUE]
    /\ caminho = "None"
    /\ pc = "configura_log"
    /\ run = 1
    /\ \E s \in {x \in Scenarios : Len(x.rows) <= MaxRowsBefore} :
          sc = [s EXCEPT !.rows = RowsAt(@)]
    /\ fs = EmptyFS
    /\ Entrada

\* the first run of a comparison is over: what it did is kept and the
\* process starts again on the backup tree the first run started on
Recomeca ==
    /\ gemeo' = [gemeo EXCEPT !.primeira = <<Resultado>>, !.etapas = <<>>]
    /\ pc' = "configura_log"
    /\ fs' = EmptyFS
    /\ outlook' = "None"
    /\ vendas' = NoneDF /\ emails' = NoneDF /\ lojas' = NoneDF
    /\ dict_lojas' = <<>>
    /\ dia_indicador' = NoDate
    /\ caminho_backup' = "None"
    /\ lista_nomes_backup' = {}
    /\ faturamento_lojas_ano' = NoneDF /\ faturamento_lojas_dia' = NoneDF
    /\ escritos' = {}
    /\ calc' = [exc |-> "none", ret |-> <<>>]
    /\ tentativas' = <<>>
    /\ criados' = <<>>
    /\ enviados' = <<>>
    /\ enviados_diretoria' = <<>>
    /\ log' = <<>>
    /\ exc' = "none"
    /\ UNCHANGED <<caminho, run>>

\* the run of main.py is over: the other file is started on the same inputs
OutroPrograma ==
    /\ pc = "done"
    /\ gemeo.ativo
    /\ gemeo.primeira = <<>>
    /\ programa = "main.py"
    /\ programa' = "main-eng-docstrings.py"
    /\ UNCHANGED sc
    /\ Recomeca

NextProgramas ==
    \/ Call_configura_log
    \/ Call_configura_outlook
    \/ Call_carrega_dfs
    \/ Call_merge_dfs
    \/ Call_cria_tabelas_para_lojas
    \/ Call_cria_indicador_dia
    \/ Call_pega_caminho_backup
    \/ Call_lista_nomes_doBackup
    \/ Call_cria_pastas_para_lojas
    \/ Call_salva_excel_para_cada_loja
    \/ Call_envia_email
    \/ Call_cria_rankings
    \/ Call_email_diretoria
    \/ OutroPrograma

SpecProgramas == InitProgramas /\ [][NextProgramas]_vars

--------------------------------------------------------------------------
(* A platform without mail client compared with one that has it: main.py   *)
(* is run where configura_outlook returns None, then on the same input     *)
(* files, disk and backup tree where it returns the application object     *)

InitClientes ==
    /\ programa = "main.py"
    /\ gemeo = [SemGemeo EXCEPT !.ativo = TRUE]
    /\ caminho = "None"
    /\ pc = "configura_log"
    /\ run = 1
    /\ \E s \in {x \in Scenarios : Len(x.rows) <= MaxRowsBefore} :
          sc = [s EXCEPT !.rows = RowsAt(@), !.env.outlook = "None"]
    /\ fs = EmptyFS
    /\ Entrada

\* the run without mail client is over: the script is started where the
\* client works
OutroCliente ==
    /\ pc = "done"
    /\ gemeo.ativo
    /\ gemeo.primeira = <<>>
    /\ sc.env.outlook = "None"
    /\ sc' = [sc EXCEPT !.env.outlook = "app"]
    /\ UNCHANGED programa
    /\ Recomeca

NextClientes ==
    \/ Call_configura_log
    \/ Call_configura_outlook
    \/ Call_carrega_dfs
    \/ Call_merge_dfs
    \/ Call_cria_tabelas_para_lojas
    \/ Call_cria_indicador_dia
    \/ Call_pega_caminho_backup
    \/ Call_lista_nomes_doBackup
    \/ Call_cria_pastas_para_lojas
    \/ Call_salva_excel_para_cada_loja
    \/ Call_envia_email
    \/ Call_cria_rankings
    \/ Call_email_diretoria
    \/ OutroCliente

SpecClientes == InitClientes /\ [][NextClientes]_vars

--------------------------------------------------------------------------
(* Vocabulary of the properties, stated over the tables and not through    *)
(* the operators of the stages.                                            *)

\* envia_email has returned to main()
Reported == pc \in {"cria_rankings", "email_diretoria", "done"} /\ exc = "none"
\* salva_excel_para_cada_loja has been called and main() is past it
Archived == pc \in {"envia_email", "cria_rankings", "email_diretoria", "done"}
\* cria_rankings has returned a pair of tables
Ranked == pc \in {"email_diretoria", "done"} /\ exc = "none" /\ ~faturamento_lojas_ano.none

\* the date a Date cell denotes, NoDate if it denotes none
DateOf(cell) == IF cell.kind \in {"dt", "text"} THEN cell.date ELSE NoDate

JoinedRows == vendas.rows
StoreKeys == {lojas.rows[i].Store : i \in 1..Len(lojas.rows)}
RowsOf(loja) == {i \in 1..Len(JoinedRows) : JoinedRows[i].Store = loja}
StoresWithRows == {k \in StoreKeys : RowsOf(k) # {}}

\* d is the latest date of the joined sales rows
IsReferenceDay(d) ==
    /\ ~d.none
    /\ \E i \in 1..Len(JoinedRows) : DateOf(JoinedRows[i].Date) = d
    /\ \A i \in 1..Len(JoinedRows) : ~DateLess(d, DateOf(JoinedRows[i].Date))

RowsOnDay(loja, d) == {i \in RowsOf(loja) : DateOf(JoinedRows[i].Date) = d}

Total(I) == SetSum([i \in I |-> JoinedRows[i].TotalValue], I)

Entries == Range(calc.ret)

\* the sub-table of a store and the two row subsets the engine works on
TableOf(loja) == (CHOOSE e \in Range(dict_lojas) : e.loja = loja).df
Subset(loja, periodo) ==
    IF periodo = "ano" THEN TableOf(loja).rows
    ELSE SelectSeq(TableOf(loja).rows, LAMBDA r : CellEq(r.Date, dia_indicador))
Ind(e, periodo) == IF periodo = "ano" THEN e.indicadores_ano ELSE e.indicadores_dia

IsInt(x, n) == x.num = n * x.den

--------------------------------------------------------------------------
(* C1: for every store with at least one sales row, the day revenue equals *)
(* the sum of Total Value over the store's rows dated on the reference day *)
(* (the latest date of the joined rows), 0 when it has none.               *)
C1_DayRevenue ==
    (Reported /\ calc.exc = "none") =>
        \A k \in StoresWithRows :
            \E e \in Entries :
                /\ e.loja = k
                /\ IsReferenceDay(dia_indicador)
                /\ IsInt(e.indicadores_dia.faturamento, Total(RowsOnDay(k, dia_indicador)))

(* C2: for every store with at least one sales row, the year revenue       *)
(* equals the sum of Total Value over all of the store's rows.             *)
C2_YearRevenue ==
    (Reported /\ calc.exc = "none") =>
        /\ \A k \in StoresWithRows : \E e \in Entries : e.loja = k
        /\ \A e \in Entries : IsInt(e.indicadores_ano.faturamento, Total(RowsOf(e.loja)))

C2_Witness ==
    /\ Reported
    /\ \E e \in Entries : Cardinality(RowsOf(e.loja)) >= 2 /\ Cardinality(Entries) = 2

\* the sale identifiers the rows of a subset carry
SaleIds(loja, S) ==
    IF "Sale Code" \notin TableOf(loja).cols THEN {}
    ELSE {S[i].SaleCode : i \in 1..Len(S)} \ {"nan"}
\* Total Value summed over the rows of S that belong to a sale
SoldTotal(S) ==
    LET I == {i \in 1..Len(S) : S[i].SaleCode # "nan"}
    IN SetSum([i \in I |-> S[i].TotalValue], I)
\* x is the mean over the n sales of S of each sale's summed Total Value
IsMeanPerSale(x, S, n) == n > 0 /\ x.num * n = x.den * SoldTotal(S)

(* C3 as stated: for each store and period with a non-empty row subset the *)
(* average ticket is the mean over the subset's distinct sale identifiers  *)
(* of each sale's summed Total Value; for an empty subset it is 0.         *)
C3_TicketOfNonEmptySubset ==
    (Reported /\ calc.exc = "none") =>
        \A e \in Entries : \A periodo \in {"ano", "dia"} :
            LET S == Subset(e.loja, periodo)
                t == Ind(e, periodo).ticket_medio
            IN IF S # <<>> THEN IsMeanPerSale(t, S, Cardinality(SaleIds(e.loja, S)))
               ELSE IsInt(t, 0)

(* C3 amended: for each store and period whose row subset has at least one *)
(* row carrying a sale identifier, the average ticket is the mean over the *)
(* distinct sale identifiers of each sale's summed Total Value (rows       *)
(* without identifier left out); when no row of the subset carries one     *)
(* (empty subset, missing codes, no Sale Code column) it is exactly 0.     *)
C3_TicketIsMeanPerSale ==
    (Reported /\ calc.exc = "none") =>
        \A e \in Entries : \A periodo \in {"ano", "dia"} :
            LET S == Subset(e.loja, periodo)
                t == Ind(e, periodo).ticket_medio
                ids == SaleIds(e.loja, S)
            IN IF ids # {} THEN IsMeanPerSale(t, S, Cardinality(ids))
               ELSE IsInt(t, 0)

C3_Witness ==
    /\ Reported
    /\ \E e \in Entries :
        /\ Cardinality(SaleIds(e.loja, Subset(e.loja, "ano"))) = 2
        /\ Len(Subset(e.loja, "ano")) = 3
        /\ Subset(e.loja, "dia") # <<>>
        /\ SaleIds(e.loja, Subset(e.loja, "dia")) = {}
        /\ IsInt(e.indicadores_dia.ticket_medio, 0)

(* C4: when a column the average ticket needs (Sale Code, Total Value) is  *)
(* absent from a store's sales table, calcula_indicadores reports ticket 0 *)
(* for the store, still emits its entry, and propagates no error.          *)
C4_TicketZeroWhenColumnAbsent ==
    (Reported /\ {"Sale Code", "Total Value"} \ vendas.cols # {}) =>
        /\ calc.exc = "none"
        /\ \A k \in StoresWithRows :
              \E e \in Entries :
                /\ e.loja = k
                /\ IsInt(e.indicadores_ano.ticket_medio, 0)
                /\ IsInt(e.indicadores_dia.ticket_medio, 0)

(* C5: for every store and period the product diversity is the number of   *)
(* distinct product identifiers of the period's row subset, at least 0 and *)
(* at most the number of rows of the subset.                               *)
C5_ProductDiversity ==
    (Reported /\ calc.exc = "none") =>
        \A e \in Entries : \A periodo \in {"ano", "dia"} :
            LET S == Subset(e.loja, periodo)
                q == Ind(e, periodo).qtd_produtos
            IN /\ q = Cardinality({S[i].Product : i \in 1..Len(S)})
               /\ 0 <= q /\ q <= Len(S)

C5_Witness ==
    /\ Reported
    /\ \E e \in Entries :
        /\ Len(Subset(e.loja, "ano")) = 3
        /\ e.indicadores_ano.qtd_produtos = 2
        /\ Len(Subset(e.loja, "dia")) = 2
        /\ e.indicadores_dia.qtd_produtos = 1

(* C6: a store of the stores table without a row in the joined sales gets  *)
(* an empty sub-table; calcula_indicadores emits no entry for it,          *)
(* salva_excel_para_cada_loja writes no file for it, and neither raises.   *)
C6_StoreWithoutSalesIsSkipped ==
    Archived =>
        \A k \in StoreKeys :
            (Range(dict_lojas) # {} /\ RowsOf(k) = {}) =>
                /\ TableOf(k).rows = <<>>
                /\ exc = "none"
                /\ calc.exc = "none"
                /\ \A e \in Entries : e.loja # k
                /\ \A f \in fs.lojas : f.folder # k

Sorted(rows) ==
    \A i \in 1..(Len(rows) - 1) :
        /\ rows[i].TotalValue >= rows[i + 1].TotalValue
        /\ rows[i].TotalValue > rows[i + 1].TotalValue
           \/ rows[i].TotalValue = rows[i + 1].TotalValue

(* C7: both tables returned by cria_rankings are ordered by revenue from   *)
(* highest to lowest: of two consecutive entries the earlier one's revenue *)
(* is greater than or equal to the later one's.                            *)
C7_RankingsDescending ==
    Ranked => Sorted(faturamento_lojas_ano.rows) /\ Sorted(faturamento_lojas_dia.rows)

C7_Witness ==
    /\ Ranked
    /\ Len(faturamento_lojas_ano.rows) = 2
    /\ faturamento_lojas_ano.rows[1].Store = "B"
    /\ faturamento_lojas_ano.rows[1].TotalValue > faturamento_lojas_ano.rows[2].TotalValue
    /\ Len(faturamento_lojas_dia.rows) = 2
    /\ faturamento_lojas_dia.rows[1].Store = "A"

\* the ranking has exactly one entry for every store of K, carrying Rev of it
RanksExactly(rows, K, Rev) ==
    /\ {rows[i].Store : i \in 1..Len(rows)} = K
    /\ Len(rows) = Cardinality(K)
    /\ \A i \in 1..Len(rows) : rows[i].TotalValue = Rev[rows[i].Store]

(* C8: the year ranking has exactly one entry for every store with a row   *)
(* in the joined sales, carrying the sum of the store's totals; the day    *)
(* ranking has exactly one entry for every store with a row on the         *)
(* reference day, carrying the sum of that day's totals, and none for a    *)
(* store without a row on that day.                                        *)
C8_RankingEntries ==
    Ranked =>
        /\ IsReferenceDay(dia_indicador)
        /\ RanksExactly(faturamento_lojas_ano.rows, StoresWithRows,
                        [k \in StoreKeys |-> Total(RowsOf(k))])
        /\ RanksExactly(faturamento_lojas_dia.rows,
                        {k \in StoreKeys : RowsOnDay(k, dia_indicador) # {}},
                        [k \in StoreKeys |-> Total(RowsOnDay(k, dia_indicador))])

C8_Witness ==
    /\ Ranked
    /\ Len(faturamento_lojas_ano.rows) = 2
    /\ Len(faturamento_lojas_dia.rows) = 1
    /\ Cardinality(RowsOf(faturamento_lojas_dia.rows[1].Store)) = 2
    /\ \E i \in 1..Len(sc.rows) : sc.rows[i].Date.kind = "text"

EntryOf(loja) == CHOOSE e \in Entries : e.loja = loja

Cor(valor, meta) == IF NumGE(valor, Num(meta)) THEN "green" ELSE "red"

(* C9: in every per-store email each of the six indicator values is green  *)
(* exactly when its numeric value is greater than or equal to the numeric  *)
(* value of its goal, and red otherwise.                                   *)
C9_ColoursFollowGoals ==
    Reported =>
        \A i \in 1..Len(enviados) :
            LET e == EntryOf(enviados[i].loja)
                c == enviados[i].cores
            IN /\ c.cor_fat_dia = Cor(e.indicadores_dia.faturamento, meta_faturamento_dia)
               /\ c.cor_fat_ano = Cor(e.indicadores_ano.faturamento, meta_faturamento_ano)
               /\ c.cor_qtde_dia = Cor(Num(e.indicadores_dia.qtd_produtos), meta_qtd_produtos_dia)
               /\ c.cor_qtde_ano = Cor(Num(e.indicadores_ano.qtd_produtos), meta_qtd_produtos_ano)
               /\ c.cor_ticket_dia = Cor(e.indicadores_dia.ticket_medio, meta_ticketMedio_dia)
               /\ c.cor_ticket_ano = Cor(e.indicadores_ano.ticket_medio, meta_ticketMedio_ano)

RosterRows(loja) == {i \in 1..Len(emails.rows) : emails.rows[i].Store = loja}

(* C10: a per-store email is sent only for a store with an indicator entry *)
(* and a row in the email roster; it is addressed to that row's address    *)
(* and its only attachment is the store's archived spreadsheet             *)
(* <root>/<store>/<month>_<day>_<store>.xlsx of the reference day; a store *)
(* with an indicator entry and no roster row gets no email.                *)
C10_StoreMails ==
    Reported =>
        /\ \A i \in 1..Len(enviados) :
            LET m == enviados[i]
                arquivo == FileName(dia_indicador.m, dia_indicador.d, m.loja)
            IN /\ \E e \in Entries : e.loja = m.loja
               /\ RosterRows(m.loja) # {}
               /\ \E j \in RosterRows(m.loja) : m.To = emails.rows[j].Email
               /\ IsReferenceDay(dia_indicador)
               /\ m.anexos = {Anexo(m.loja, arquivo)}
               /\ \E f \in fs.lojas : f.folder = m.loja /\ f.name = arquivo
        /\ \A e \in Entries :
            RosterRows(e.loja) = {} => \A i \in 1..Len(enviados) : enviados[i].loja # e.loja

C10_Witness ==
    /\ Reported
    /\ Len(enviados) = 1
    /\ \E e \in Entries : RosterRows(e.loja) = {}

\* email_diretoria has returned to main()
Closed == pc = "done" /\ exc = "none"

RankingName(tipo) == FileName(dia_indicador.m, dia_indicador.d, tipo)

(* C11: in one run the executive email is sent at most once, and when it   *)
(* is sent its attachments are the two ranking spreadsheets of the         *)
(* reference day, Ranking_Anual and Ranking_Dia, both present under the    *)
(* backup root.                                                            *)
C11_ExecutiveMailOnceWithRankings ==
    /\ Len(enviados_diretoria) <= 1
    /\ \A i \in 1..Len(enviados_diretoria) :
        /\ IsReferenceDay(dia_indicador)
        /\ enviados_diretoria[i].anexos = {RankingName("Ranking_Anual"), RankingName("Ranking_Dia")}
        /\ \A a \in enviados_diretoria[i].anexos : \E f \in fs.rankings : f.name = a

C11_Witness ==
    /\ Closed
    /\ Len(enviados_diretoria) = 1
    /\ Len(enviados) = 2

StoresIn(rows) == {rows[i].Store : i \in 1..Len(rows)}

\* melhor is a store of K whose revenue no store of K exceeds, pior one whose
\* revenue none falls below
Extremes(melhor, pior, K, Rev) ==
    /\ melhor \in K /\ pior \in K
    /\ \A k \in K : Rev[melhor] >= Rev[k] /\ Rev[k] >= Rev[pior]

(* C12: in the executive email the store named best for a period is the    *)
(* first entry of that period's ranking and the store named worst is the   *)
(* last entry; the best store's revenue of the period is the maximum and   *)
(* the worst store's the minimum over the stores of that ranking.          *)
C12_BestAndWorst ==
    \A i \in 1..Len(enviados_diretoria) :
        LET m == enviados_diretoria[i]
            dia == faturamento_lojas_dia.rows
            ano == faturamento_lojas_ano.rows
        IN /\ m.melhor_loja_dia = dia[1].Store /\ m.pior_loja_dia = dia[Len(dia)].Store
           /\ m.melhor_loja_ano = ano[1].Store /\ m.pior_loja_ano = ano[Len(ano)].Store
           /\ Extremes(m.melhor_loja_dia, m.pior_loja_dia, StoresIn(dia),
                       [k \in StoreKeys |-> Total(RowsOnDay(k, dia_indicador))])
           /\ Extremes(m.melhor_loja_ano, m.pior_loja_ano, StoresIn(ano),
                       [k \in StoreKeys |-> Total(RowsOf(k))])

C12_Witness ==
    /\ Len(enviados_diretoria) = 1
    /\ enviados_diretoria[1].melhor_loja_dia = "A"
    /\ enviados_diretoria[1].pior_loja_dia = "B"
    /\ enviados_diretoria[1].melhor_loja_ano = "B"
    /\ Total(RowsOnDay("A", dia_indicador)) > Total(RowsOnDay("B", dia_indicador))
    /\ Total(RowsOf("B")) > Total(RowsOf("A"))

\* the roster was read and has no row for the executive recipient
NoCEORow == ~emails.none /\ RosterRows("CEO") = {}

(* C13: when the email roster has no row whose store key is "CEO", the     *)
(* call of email_diretoria logs one error, sends no executive email,       *)
(* creates no message and raises nothing: main() goes on to its end.       *)
C13_NoCEORow ==
    [][(pc = "email_diretoria" /\ NoCEORow) =>
            /\ pc' = "done"
            /\ exc' = "none"
            /\ log' = Append(log, "E:email_diretoria")
            /\ enviados_diretoria' = <<>>
            /\ criados' = criados /\ "CEO" \notin Range(criados)]_vars

C13_Witness ==
    /\ Closed
    /\ NoCEORow
    /\ outlook # "None"
    /\ ~faturamento_lojas_dia.none /\ faturamento_lojas_dia.rows # <<>>
    /\ RankExists(fs, RankingName("Ranking_Dia"))
    /\ log[Len(log)] = "E:email_diretoria"

(* C14: a stage that fails logs it and returns None or an empty structure, *)
(* and every later stage given a None or empty input returns early         *)
(* without raising: main() calls every one of its stages and no exception  *)
(* reaches its handlers.                                                   *)
C14_FailuresAreAbsorbed ==
    /\ exc = "none"
    /\ "E:main" \notin Range(log)
    /\ pc = "done" => \E i \in 1..Len(log) : log[i] \in {"E:email_diretoria", "I:email_diretoria"}

\* the stores envia_email has to write to: an indicator entry and a roster row
Addressees == {e.loja : e \in {e \in Entries : RosterRows(e.loja) # {}}}

Count(s, x) == Cardinality({i \in 1..Len(s) : s[i] = x})

(* C15: in envia_email a failure on one store's message does not stop the  *)
(* loop: every store with an indicator entry and a roster row gets its     *)
(* send attempt, also after another store's attempt failed, and no store   *)
(* gets more than one attempt in a run.                                    *)
C15_LoopContinuesAfterFailure ==
    (Reported /\ calc.exc = "none" /\ ~emails.none) =>
        /\ Range(tentativas) = Addressees
        /\ \A k \in Addressees : Count(tentativas, k) = 1
        /\ \A k \in StoreKeys : Count([i \in 1..Len(enviados) |-> enviados[i].loja], k) <= 1

C15_Witness ==
    /\ Reported
    /\ tentativas = <<"A", "B">>
    /\ Len(enviados) = 1
    /\ enviados[1].loja = "B"
    /\ criados = <<"A", "B">>

\* the place of a call in the body of main()
Pos(etapa) == CHOOSE i \in 1..Len(ETAPAS) : ETAPAS[i] = etapa

\* the component a call of main() belongs to: 1 Loader, 2 Joiner,
\* 3 Partitioner, 4 Indicator Engine and Archiver, 5 Notifier
Component(etapa) ==
    CASE etapa \in {"configura_log", "configura_outlook"} -> 0
      [] etapa = "carrega_dfs" -> 1
      [] etapa = "merge_dfs" -> 2
      [] etapa = "cria_tabelas_para_lojas" -> 3
      [] etapa \in {"cria_indicador_dia", "pega_caminho_backup", "lista_nomes_doBackup",
                    "cria_pastas_para_lojas", "salva_excel_para_cada_loja",
                    "cria_rankings"} -> 4
      [] etapa \in {"envia_email", "email_diretoria"} -> 5
      [] OTHER -> 6

MailSent == enviados # <<>> \/ enviados_diretoria # <<>>
StoreSheets(paths) == {a \in paths : a.folder # ""}
RootSheets(paths) == paths \ StoreSheets(paths)

(* C16, as claimed: in every run the components execute in the order       *)
(* Loader, Joiner, Partitioner, Indicator Engine and Archiver, Notifier,   *)
(* each stage at most once, and once an email (per-store or executive)     *)
(* has been sent the run writes no further spreadsheet, the ranking        *)
(* spreadsheets included.                                                  *)
C16_ArchiveBeforeAnyMail ==
    [][run' = run =>
        /\ pc' # pc => Pos(pc') > Pos(pc) /\ Component(pc') >= Component(pc)
        /\ MailSent => escritos' = escritos]_vars

(* C16, amended: in every run the stages execute in the order of main(),   *)
(* each at most once: Loader, Joiner, Partitioner, the per-store           *)
(* spreadsheets of the Archiver, the indicators with the per-store emails, *)
(* the rankings with their two spreadsheets, the executive email.  No      *)
(* per-store spreadsheet is written once a per-store email has been sent,  *)
(* no spreadsheet at all once the executive email has been sent, and the   *)
(* ranking spreadsheets are written after the per-store emails.            *)
C16_StagesInOrder ==
    [][run' = run =>
        /\ pc' # pc => Pos(pc') > Pos(pc)
        /\ enviados # <<>> => StoreSheets(escritos') = StoreSheets(escritos)
        /\ enviados_diretoria # <<>> => escritos' = escritos
        /\ enviados' # enviados => escritos \ StoreSheets(escritos) = {}
        /\ escritos' \ StoreSheets(escritos') # escritos \ StoreSheets(escritos)
              => pc = "cria_rankings" /\ enviados' = enviados]_vars

C16_Witness ==
    /\ Closed
    /\ Len(enviados) = 2
    /\ Len(enviados_diretoria) = 1
    /\ Cardinality(StoreSheets(escritos)) = 2
    /\ Cardinality(escritos \ StoreSheets(escritos)) = 2

RankingPath(tipo) == Anexo("", RankingName(tipo))
\* the ranking spreadsheet of the reference day holds the rows of the table
Saved(tipo, rows) == \E f \in fs.rankings : f.name = RankingName(tipo) /\ f.rows = rows

NoRowOnDay ==
    /\ ~vendas.none /\ ~dia_indicador.none
    /\ \A i \in 1..Len(JoinedRows) : DateOf(JoinedRows[i].Date) # dia_indicador

\* the backup root exists and takes the write of the year ranking
RootWritable == fs.root /\ sc.env.disk = "ok"

(* C18: when no row of the sales table given to cria_rankings has a date   *)
(* equal to the reference date (and the year ranking can be saved under    *)
(* the backup root), cria_rankings returns the year ranking, one entry per *)
(* store of the table in descending order, together with an empty day      *)
(* ranking; it neither returns the error result nor raises.                *)
C18_EmptyDayRanking ==
    (pc \in {"email_diretoria", "done"} /\ NoRowOnDay /\ RootWritable) =>
        /\ exc = "none"
        /\ ~faturamento_lojas_ano.none /\ ~faturamento_lojas_dia.none
        /\ RanksExactly(faturamento_lojas_ano.rows, StoresWithRows,
                        [k \in StoreKeys |-> Total(RowsOf(k))])
        /\ Sorted(faturamento_lojas_ano.rows)
        /\ faturamento_lojas_dia = DF(RANK_COLS, <<>>)

C18_Witness ==
    /\ pc = "email_diretoria"
    /\ NoRowOnDay
    /\ dia_indicador = OtherDay
    /\ Len(faturamento_lojas_ano.rows) = 2
    /\ faturamento_lojas_dia.rows = <<>>
    /\ "W:cria_rankings" \in Range(log)

\* the stores whose sub-table has rows, and the spreadsheet of such a store
\* for the reference day
StoresToSave == {e.loja : e \in {e \in Range(dict_lojas) : e.df.rows # <<>>}}
SheetOf(loja) == LojaFile(loja, FileName(dia_indicador.m, dia_indicador.d, loja), TableOf(loja).rows)

(* C19: given a valid backup root (it exists and takes the writes) and a   *)
(* reference day, salva_excel_para_cada_loja leaves, for each store with a *)
(* non-empty sub-table, the folder <root>/<store> in place and that        *)
(* store's rows in the one file <root>/<store>/<month>_<day>_<store>.xlsx; *)
(* it writes no other file and changes nothing else under the root.        *)
C19_OneSheetPerStore ==
    [][(pc = "salva_excel_para_cada_loja" /\ caminho_backup # "None" /\ RootWritable
            /\ ~dia_indicador.none) =>
        /\ pc' = "envia_email" /\ exc' = "none"
        /\ fs'.root
        /\ fs'.folders = fs.folders \cup StoresToSave
        /\ fs'.lojas =
              {g \in fs.lojas : ~\E k \in StoresToSave :
                                    g.folder = k /\ g.name = SheetOf(k).name}
              \cup {SheetOf(k) : k \in StoresToSave}
        /\ fs'.rankings = fs.rankings
        /\ escritos' = escritos \cup {Anexo(k, SheetOf(k).name) : k \in StoresToSave}]_vars

C19_Witness ==
    /\ pc = "envia_email"
    /\ Cardinality(escritos) = 1
    /\ Cardinality(fs.lojas) = 1
    /\ \E e \in Range(dict_lojas) : e.df.rows = <<>>
    /\ \E f \in fs.lojas : Len(f.rows) = 2

\* a spreadsheet is stored at the path under the backup root
Stored(tree, a) ==
    \/ a.folder # "" /\ \E g \in tree.lojas : g.folder = a.folder /\ g.name = a.name
    \/ a.folder = "" /\ \E g \in tree.rankings : g.name = a.name
Paths(tree) ==
    {Anexo(g.folder, g.name) : g \in tree.lojas} \cup {Anexo("", g.name) : g \in tree.rankings}

(* C20: across any sequence of runs the backup tree is append-only: no     *)
(* step removes a spreadsheet from under the backup root, and no write of  *)
(* a run goes to a path where a spreadsheet is already stored (a run       *)
(* writes each of its paths once, so such a spreadsheet is one an earlier  *)
(* run wrote).                                                             *)
C20_AppendOnly ==
    [][/\ Paths(fs) \subseteq Paths(fs')
       /\ fs.folders \subseteq fs'.folders
       /\ \A a \in escritos' \ escritos : run' = run => ~Stored(fs, a)]_vars


--------------------------------------------------------------------------
\* the store folders that main() asks cria_pastas_para_lojas to create
StoreFolders == {dict_lojas[i].loja : i \in 1..Len(dict_lojas)}

\* C21: folder creation is create-if-absent.  A call of pega_caminho_backup
\* that finds the backup root in place returns it, leaves the backup tree as
\* it was and logs no error; a call of cria_pastas_para_lojas that finds the
\* root and the folder of every store in place (what an earlier call with the
\* same stores left) leaves the tree as it was and logs no error.
C21_FolderCreationIdempotent ==
    [][/\ (pc = "pega_caminho_backup" /\ pc' # pc /\ fs.root)
            => /\ fs' = fs
               /\ caminho_backup' = BACKUP
               /\ "E:pega_caminho_backup" \notin Range(log')
       /\ (pc = "cria_pastas_para_lojas" /\ pc' # pc /\ fs.root
             /\ StoreFolders \subseteq fs.folders)
            => /\ fs' = fs
               /\ "E:cria_pastas_para_lojas" \notin Range(log')]_vars

\* a later run has called both on the tree of the run before, with stores
\* whose folders exist, on a disk that would refuse to create a folder
C21_Witness ==
    /\ run = 2
    /\ pc = "salva_excel_para_cada_loja"
    /\ sc.env.disk = "readonly"
    /\ StoreFolders = {"A", "B"}
    /\ StoreFolders \subseteq fs.folders


--------------------------------------------------------------------------
\* one of the three input files is missing or unreadable in this run
InputMissing == sc.env.arquivos = "missing"

\* C22: in a run where an input file is missing or cannot be read,
\* carrega_dfs returns (None, None, None) and raises nothing, and the run
\* sends no email and writes no store or ranking spreadsheet.
C22_MissingInputFile ==
    InputMissing =>
        /\ exc = "none"
        /\ Pos(pc) > Pos("carrega_dfs") =>
              /\ emails.none /\ lojas.none
              /\ vendas.none
              /\ "E:carrega_dfs" \in Range(log)
        /\ ~MailSent
        /\ criados = <<>>
        /\ escritos = {}

\* such a run has ended, over a backup root that holds the ranking
\* spreadsheets of the run before
C22_Witness ==
    /\ InputMissing
    /\ pc = "done"
    /\ run = 2
    /\ fs.rankings # {}


--------------------------------------------------------------------------
\* the handler around the call of main() has logged an exception that left it
LeftMain == "C:__main__" \in Range(log)

\* C23: every run of main() ends, after one pass in which no stage is
\* called twice, and no exception leaves main(), whatever the inputs and
\* whichever of the I/O and mail calls fail.
C23_MainTerminates ==
    /\ [](~LeftMain)
    /\ [][run' = run => Pos(pc') > Pos(pc)]_vars
    /\ []<>(pc = "done")

\* a run has ended on an exception that left a stage and main() caught
C23_Witness ==
    /\ pc = "done"
    /\ exc = "AttributeError"
    /\ "E:main" \in Range(log)
    /\ tentativas = <<>>


--------------------------------------------------------------------------
\* main-eng-docstrings.py has run to its end after main.py
SecondEnded == gemeo.ativo /\ programa = "main-eng-docstrings.py" /\ pc = "done"

--------------------------------------------------------------------------
\* carrega_dfs has been called with a dictionary of paths
OverrideCalled == caminho # "None" /\ pc # "carrega_dfs"

--------------------------------------------------------------------------
\* the row a ranking has for a store
RankedRevenue(rows, loja) ==
    CHOOSE i \in 1..Len(rows) : rows[i].Store = loja

\* C26: in a run where the indicators and the rankings were both produced,
\* the stores with an indicator entry are the stores of the year ranking,
\* each with the year revenue the ranking gives it; a store is in the day
\* ranking exactly when the engine's day subset for it is not empty, with the
\* day revenue the ranking gives it; a store that is not in the day ranking
\* has day revenue 0.
C26_EngineAndRankingAgree ==
    (Ranked /\ calc.exc = "none") =>
        /\ {e.loja : e \in Entries} = StoresIn(faturamento_lojas_ano.rows)
        /\ \A e \in Entries :
            /\ IsInt(e.indicadores_ano.faturamento,
                     faturamento_lojas_ano.rows[
                         RankedRevenue(faturamento_lojas_ano.rows, e.loja)].TotalValue)
            /\ (e.loja \in StoresIn(faturamento_lojas_dia.rows))
                  <=> (Subset(e.loja, "dia") # <<>>)
            /\ e.loja \in StoresIn(faturamento_lojas_dia.rows) =>
                  IsInt(e.indicadores_dia.faturamento,
                        faturamento_lojas_dia.rows[
                            RankedRevenue(faturamento_lojas_dia.rows, e.loja)].TotalValue)
            /\ e.loja \notin StoresIn(faturamento_lojas_dia.rows) =>
                  IsInt(e.indicadores_dia.faturamento, 0)


--------------------------------------------------------------------------
\* every row of S carries a sale identifier
AllSold(loja, S) ==
    /\ "Sale Code" \in TableOf(loja).cols
    /\ \A i \in 1..Len(S) : S[i].SaleCode # "nan"

\* C27: for every store and each period (year, day) whose row subset is not
\* empty and has a sale identifier in every row, the average ticket times
\* the number of distinct sale identifiers of the subset is the revenue of
\* the period.
C27_TicketTimesSales ==
    (Reported /\ calc.exc = "none") =>
        \A e \in Entries : \A periodo \in {"ano", "dia"} :
            LET S == Subset(e.loja, periodo)
                t == Ind(e, periodo).ticket_medio
                f == Ind(e, periodo).faturamento
                n == Cardinality(SaleIds(e.loja, S))
            IN (S # <<>> /\ AllSold(e.loja, S)) =>
                  t.num * n * f.den = f.num * t.den

\* a store with three rows in two sales, two of them on the reference day
C27_Witness ==
    /\ Reported
    /\ calc.exc = "none"
    /\ \E e \in Entries :
        /\ AllSold(e.loja, Subset(e.loja, "ano"))
        /\ Len(Subset(e.loja, "ano")) = 3
        /\ Cardinality(SaleIds(e.loja, Subset(e.loja, "ano"))) = 2
        /\ Len(Subset(e.loja, "dia")) = 2
        /\ Cardinality(SaleIds(e.loja, Subset(e.loja, "dia"))) = 1
        /\ e.indicadores_dia.ticket_medio.den = 1
        /\ e.indicadores_ano.ticket_medio.den = 2


--------------------------------------------------------------------------
\* the joined table has been split into the sub-tables of dict_lojas
Partitioned ==
    /\ Pos(pc) > Pos("cria_tabelas_para_lojas")
    /\ ~vendas.none
    /\ dict_lojas # <<>>

\* how often the row r is in rows, the Date cells read as dates (the joined
\* table has its Date column converted after the split)
Occurrences(rows, r) ==
    Cardinality({i \in 1..Len(rows) : ConvertDates(rows)[i] = r})

\* every joined row is in the sub-table of one store, as often as it is in
\* the joined table, and a sub-table has no other row
IsPartition ==
    /\ \A i, j \in 1..Len(dict_lojas) : dict_lojas[i].loja = dict_lojas[j].loja => i = j
    /\ \A e \in Range(dict_lojas) : \A r \in Range(e.df.rows) : r.Store = e.loja
    /\ \A e \in Range(dict_lojas) : \A r \in Range(ConvertDates(e.df.rows)) :
          Occurrences(e.df.rows, r) = Occurrences(JoinedRows, r)
    /\ \A r \in Range(ConvertDates(JoinedRows)) :
          \E e \in Range(dict_lojas) : Occurrences(e.df.rows, r) = Occurrences(JoinedRows, r)

\* the rows of the sales file and, for each, the lines of the stores file
\* that carry its store identifier
SalesRows == sc.rows
Matches(i) == Cardinality({j \in 1..Len(lojas.rows) : lojas.rows[j].StoreID = SalesRows[i].StoreID})

\* the year revenues of all stores, summed
YearRevenues ==
    LET K == {e.loja : e \in Entries}
    IN SetSum([k \in K |-> (CHOOSE e \in Entries : e.loja = k).indicadores_ano.faturamento.num], K)

\* C28 as stated: the sub-tables partition the joined table, and the year
\* revenues of all stores sum to the Total Value of the sales rows whose
\* store identifier is in the stores table, each sales row counted once.
C28_PartitionEachRowOnce ==
    /\ Partitioned => IsPartition
    /\ (Reported /\ calc.exc = "none") =>
          /\ \A e \in Entries : e.indicadores_ano.faturamento.den = 1
          /\ LET I == {i \in 1..Len(SalesRows) : Matches(i) >= 1}
             IN YearRevenues = SetSum([i \in I |-> SalesRows[i].TotalValue], I)

\* C28 amended: the sub-tables partition the joined table, and the year
\* revenues of all stores sum to the Total Value of the sales rows, each
\* counted once for every line of the stores table that carries its store
\* identifier (once when the identifier is on one line, not at all when it
\* is on none).
C28_PartitionOfJoinedRows ==
    /\ Partitioned => IsPartition
    /\ (Reported /\ calc.exc = "none") =>
          /\ \A e \in Entries : e.indicadores_ano.faturamento.den = 1
          /\ LET I == 1..Len(SalesRows)
             IN YearRevenues = SetSum([i \in I |-> SalesRows[i].TotalValue * Matches(i)], I)

\* the indicators of both stores were computed from a stores file that has
\* the line of one of them twice
C28_Witness ==
    /\ Reported
    /\ calc.exc = "none"
    /\ sc.env.arquivos = "repetida"
    /\ Cardinality(Entries) = 2
    /\ IsPartition


--------------------------------------------------------------------------
\* the paths of the spreadsheets attached to the mails this run has sent
Attached ==
    UNION {enviados[i].anexos : i \in 1..Len(enviados)}
    \cup {Anexo("", a) : a \in UNION {enviados_diretoria[i].anexos :
                                        i \in 1..Len(enviados_diretoria)}}

\* C29: in every run of a sequence of runs, each spreadsheet attached to a
\* mail the run has sent (a store's spreadsheet, a ranking spreadsheet) was
\* written by that run: a file an earlier run left under the backup root is
\* never attached in place of one this run did not write.
C29_AttachmentsAreFresh == Attached \subseteq escritos

--------------------------------------------------------------------------
\* the run where configura_outlook returns None is over, and so is the run
\* on the same inputs where it returns the application object
BothClientsEnded ==
    gemeo.ativo /\ gemeo.primeira # <<>> /\ pc = "done" /\ sc.env.outlook = "app"

\* what a run leaves apart from its mails and its log: the stages it called,
\* the backup tree, the spreadsheets it wrote, the two ranking tables and the
\* exception that reached the handlers of main
Archive(r) ==
    [etapas |-> r.etapas, fs |-> r.fs, escritos |-> r.escritos,
     ano |-> r.ano, dia |-> r.dia, exc |-> r.exc]

\* C30: where configura_outlook returns None the run makes and sends no
\* mail, to a store or to the executive board, and the missing client raises
\* nothing: the run calls the same stages, ends with the same exception (none,
\* unless the archiving stage raised one) and leaves the same store
\* spreadsheets, ranking spreadsheets and ranking tables as the run on the
\* same inputs with a working mail client.
C30_NoClientSameArchive ==
    /\ sc.env.outlook = "None" =>
          criados = <<>> /\ enviados = <<>> /\ enviados_diretoria = <<>>
    /\ BothClientsEnded =>
          /\ gemeo.primeira[1].enviados = <<>>
          /\ gemeo.primeira[1].enviados_diretoria = <<>>
          /\ Archive(gemeo.primeira[1]) = Archive(Resultado)

\* with a working client the store mails and the executive mail are sent;
\* without it none was, and the store spreadsheet and both ranking
\* spreadsheets were written all the same
C30_Witness ==
    /\ BothClientsEnded
    /\ enviados # <<>> /\ enviados_diretoria # <<>>
    /\ gemeo.primeira[1].criados = <<>>
    /\ gemeo.primeira[1].exc = "none"
    /\ {RankingPath("Ranking_Anual"), RankingPath("Ranking_Dia")}
           \subseteq gemeo.primeira[1].escritos
    /\ Cardinality(gemeo.primeira[1].escritos) >= 3

====
